---- MODULE Spec2Model ----
(***************************************************************************)
(* A model of processgpt_agent_utils: the Persistence Gateway              *)
(* (utils/database.py), the Context Store (utils/context_manager.py), the  *)
(* Human Query Tool (tools/human_query_tool.py), the Tool Loader           *)
(* (tools/safe_tool_loader.py), the Peer-Agent Tool                        *)
(* (tools/a2a_client_tool.py), the Deterministic Code Tool                 *)
(* (tools/deterministic_code_tool.py), the Decision-Table Tool             *)
(* (tools/dmn_rule_tool.py) and the Event Logger                           *)
(* (utils/crew_event_logger.py).                                           *)
(*                                                                         *)
(* Each component is a state machine over its own variables.  A            *)
(* specification Spec<Component> runs one component from its initial       *)
(* states and keeps the variables of the others at their idle values.      *)
(* Times are in tenths of a second in the retry wrapper and in seconds in  *)
(* the Human Query Tool.                                                   *)
(***************************************************************************)
EXTENDS Integers, Sequences, FiniteSets, TLC

VARIABLES
    \* ---- _retry_sync (utils/database.py) ----
    retry_pc,       \* position in _retry_sync
    retries,        \* the retries argument
    has_fallback,   \* whether a fallback was supplied
    attempt,        \* the loop variable
    last_err,       \* last_err (0: None; k: the error raised by the k-th call of fn)
    fn_hist,        \* the outcomes of the calls of fn so far, in order
    delay,          \* the delay computed for the pending time.sleep
    delays,         \* the delays slept so far, in order
    fb_calls,       \* how many times fallback was called
    retry_out       \* the wrapper's outcome: [kind, val]

VARIABLES
    \* ---- save_notification_sync (utils/database.py) ----
    notif_pc,       \* position in save_notification_sync
    user_ids_csv,   \* the user_ids_csv argument: [is_none, text]
    rows,           \* the rows built for the insert
    notifications,  \* the notifications table: the user_id of each row, in insert order
    backend_calls,  \* how many insert calls reached the backend
    notif_out       \* "none", "returned" or "raised"

VARIABLES
    \* ---- HumanQueryTool._wait_for_response (tools/human_query_tool.py) ----
    hq_pc,          \* position in _wait_for_response
    clock,          \* time.time(), in seconds since the wait began
    deadline,       \* deadline
    error_count,    \* error_count
    response,       \* the human_response event of the job id: "none", "answer" or "data"
    last_polls,     \* the outcomes of the last polls, at most 3, oldest first
    poll_raised,    \* whether some poll has raised
    responded_at,   \* the time the response was persisted (-1: not yet)
    hq_out          \* the outcome of the wait: [kind, val]

VARIABLES
    \* ---- the Context Store (utils/context_manager.py) ----
    store,          \* the six ContextVars: store[field][execution] is the value the
                    \* variable holds in that execution's context
    ctx_actor,      \* the execution that made the latest call ("none": no call yet)
    supplied        \* per execution and field, the value of the latest set_context
                    \* call that supplied the field since the latest reset_context

VARIABLES
    \* ---- initialize_db / get_db_client (utils/database.py) ----
    db_client,      \* _db_client (0: None; k: the k-th client that create_client built)
    env,            \* whether the environment holds a URL and a key: [url, key]
    init_pc,        \* per thread, its position in initialize_db
    init_local,     \* per thread, the client its create_client call returned
    init_out,       \* per thread, how its latest initialize_db call ended
    created,        \* how many clients create_client has built
    assigned,       \* the clients assigned to _db_client, in order
    got             \* the results of the get_db_client calls (0: it raised)

VARIABLES
    \* ---- SafeToolLoader.create_tools_from_names (tools/safe_tool_loader.py) ----
    tl_pc,          \* position in create_tools_from_names
    tool_names,     \* the tool_names argument
    agent_type,     \* the agent_type argument ("": None or empty)
    loader_ids,     \* which of user_id, tenant_id, agent_name the loader holds
    tl_i,           \* the index of the name the MCP loop is at
    a2a_candidates, \* a2a_candidates
    a2a_results,    \* per candidate, whether _load_a2a_tools built its tool
    warmed,         \* the calls of warmup_server: [i, key], in order
    mcp_loaded,     \* the calls of _load_mcp_tool: [i, key], in order
    tools,          \* tools: [kind, name], in order
    tl_out          \* "none", "returned" or "raised"

VARIABLES
    \* ---- SafeToolLoader.shutdown_all_adapters (tools/safe_tool_loader.py) ----
    adapters,       \* SafeToolLoader.adapters: [key, stop_fails], in order of registration
    sd_pc,          \* position in shutdown_all_adapters
    sd_i,           \* the index of the adapter the loop is at
    stopped,        \* the indexes of the adapters whose stop() returned, in order
    sd_out          \* "none", "returned" or "raised"

VARIABLES
    \* ---- A2AAgentTool._arun (tools/a2a_client_tool.py) ----
    a2a_pc,         \* position in _arun
    a2a_kwargs,     \* the keyword arguments: [message, payload, extra, skill, typed]
    a2a_params,     \* params, once the input model is built: [message, payload]
    a2a_message,    \* the text of the message to send
    a2a_sent,       \* how many times client.send_message was called
    a2a_out         \* the outcome of the call: [kind, val]

VARIABLES
    \* ---- fetch_mcp_python_code / upsert_mcp_python_code (utils/database.py) ----
    code_rows,      \* the rows of mcp_python_code for one (proc_def_id, activity_id,
                    \* tenant_id), in order of created_at: [id, code]
    up_pc,          \* per caller, the position in upsert_mcp_python_code
    up_existing,    \* per caller, existing: the id of the row its fetch found (0: None)
    up_code,        \* per caller, the code argument
    up_calls,       \* how many calls of upsert_mcp_python_code were made
    up_done,        \* how many of them returned
    last_upsert,    \* the code of the call that returned last
    overlapped      \* whether a call ever began while another was in progress

VARIABLES
    \* ---- DeterministicCodeTool._run (tools/deterministic_code_tool.py) ----
    dc_pc,          \* position in _run
    dc_action,      \* the action argument
    dc_workitem,    \* workitem, as fetch_workitem_by_id returned it
    dc_events,      \* rows, as fetch_events_by_todo_id returned them
    dc_fetches,     \* how many times the events were fetched
    dc_steps,       \* steps
    dc_persisted,   \* how many times upsert_mcp_python_code stored code
    dc_code,        \* existed_code, as fetch_mcp_python_code returned it
    dc_runs,        \* the subprocess runs so far: "compensation" or "code", in order
    dc_results,     \* the values _execute_code returned, in order
    dc_out          \* the outcome of _run: [kind, val, results, form_result]

VARIABLES
    \* ---- the domain operations of utils/database.py ----
    gw_pc,          \* position in the operation
    gw_op,          \* the operation called
    gw_failing,     \* how many backend calls fail before the backend answers
    gw_calls,       \* how many backend calls the operation has made
    gw_slept,       \* the delays slept between them, in order
    gw_out          \* "none", "returned" or "raised"

VARIABLES
    \* ---- CrewAIEventLogger.on_event ----
    el_pc,          \* position in on_event
    el_event,       \* the event received
    el_ctx,         \* the ambient task id, process-instance id and crew type
    el_in_loop,     \* on_event is called from a thread whose event loop is running
    el_type,        \* the result of _extract_event_type
    el_attempts,    \* insert calls made by save_event_sync
    events_table,   \* the rows of the events table, in insertion order
    el_out          \* "none", "returned" or "raised"

VARIABLES
    \* ---- HumanQueryTool._run ----
    run_pc,         \* position in _run
    run_csv,        \* self._user_ids_csv, bound at construction
    run_log,        \* what the run has done to the backend, in order
    run_attempts,   \* insert calls made by the operation in progress
    run_recipients, \* the user ids of the Notification rows inserted
    run_polls,      \* polls made by _wait_for_response
    run_errors,     \* polls in a row that raised
    run_failed,     \* the step whose failure ended the run, or "none"
    run_out         \* "none", "returned" or "raised"

VARIABLES
    \* ---- SafeToolLoader._load_mcp_tool, called from create_tools_from_names ----
    mcp_pc,         \* position in the loop over the server keys
    mcp_cfgs,       \* for each server key of tool_names, whether it is configured
    mcp_i,          \* the index of the key being loaded
    mcp_attempt,    \* the loop variable of _load_mcp_tool
    mcp_log,        \* the attempts and sleeps made so far, in order
    mcp_registry,   \* SafeToolLoader.adapters: the adapters appended, in order
    mcp_tools,      \* the local list `tools` of create_tools_from_names
    mcp_out         \* what create_tools_from_names gave its caller

VARIABLES
    \* ---- SafeToolLoader.warmup_server ----
    wu_pc,          \* position in warmup_server
    wu_cfg,         \* the result of _get_mcp_config(server_key)
    wu_runs,        \* the subprocess runs made: their timeout and how they ended
    wu_out          \* "none", "returned" or the name of the error raised

VARIABLES
    \* ---- _execute_code (tools/deterministic_code_tool.py) ----
    ex_pc,          \* position in _execute_code
    ex_code_dict,   \* the code_dict argument: [given, code, compensation]
    ex_use_comp,    \* the use_compensation argument
    ex_activity,    \* activity_code: the body selected, "None" when it is missing
    ex_temp_exists, \* whether the temporary file of this execution exists
    ex_created,     \* whether the temporary file was ever created
    ex_out          \* "none", "returned" or the error raised

VARIABLES
    \* ---- DMNRuleTool (tools/dmn_rule_tool.py) ----
    dmn_pc,         \* position in __init__, then "built" or "failed"
    dmn_user_id,    \* the user_id argument: "None", "" or an id
    dmn_load,       \* how the backend query of _load_user_rules ended
    dmn_rules,      \* self._user_rules
    dmn_answers,    \* what _run has answered, in order
    dmn_out         \* "none", "constructed" or "raised"

VARIABLES
    \* ---- the synchronous entries that run a coroutine:
    \*      A2AAgentTool._run and SafeToolLoader._load_a2a_tools ----
    br_pc,          \* position of the synchronous call
    br_caller,      \* which of the two entries is called
    br_in_loop,     \* the calling thread is running an event loop
    br_loop,        \* the loop the coroutine was given to: "none", "caller" or "fresh"
    br_thread,      \* what the calling thread does: "sync", "drives_loop" or "blocked"
    br_steps,       \* the steps (awaits) of the coroutine: [made, total]
    br_coro,        \* the coroutine: "new", "scheduled", "done" or "failed"
    br_out          \* "none", "returned" or "raised"

retryVars == <<retry_pc, retries, has_fallback, attempt, last_err, fn_hist,
               delay, delays, fb_calls, retry_out>>
notifVars == <<notif_pc, user_ids_csv, rows, notifications, backend_calls, notif_out>>

humanVars == <<hq_pc, clock, deadline, error_count, response, last_polls, poll_raised, responded_at,
               hq_out>>

ctxVars == <<store, ctx_actor, supplied>>

dbVars == <<db_client, env, init_pc, init_local, init_out, created, assigned, got>>

loaderVars == <<tl_pc, tool_names, agent_type, loader_ids, tl_i, a2a_candidates,
                a2a_results, warmed, mcp_loaded, tools, tl_out>>

shutdownVars == <<adapters, sd_pc, sd_i, stopped, sd_out>>

a2aVars == <<a2a_pc, a2a_kwargs, a2a_params, a2a_message, a2a_sent, a2a_out>>

codeVars == <<code_rows, up_pc, up_existing, up_code, up_calls, up_done, last_upsert,
              overlapped>>

dcVars == <<dc_pc, dc_action, dc_workitem, dc_events, dc_fetches, dc_steps, dc_persisted,
            dc_code, dc_runs, dc_results, dc_out>>

gwVars == <<gw_pc, gw_op, gw_failing, gw_calls, gw_slept, gw_out>>

loggerVars == <<el_pc, el_event, el_ctx, el_in_loop, el_type, el_attempts, events_table, el_out>>

runVars == <<run_pc, run_csv, run_log, run_attempts, run_recipients, run_polls,
            run_errors, run_failed, run_out>>

mcpVars == <<mcp_pc, mcp_cfgs, mcp_i, mcp_attempt, mcp_log, mcp_registry, mcp_tools, mcp_out>>

warmVars == <<wu_pc, wu_cfg, wu_runs, wu_out>>

execVars == <<ex_pc, ex_code_dict, ex_use_comp, ex_activity, ex_temp_exists, ex_created, ex_out>>

dmnVars == <<dmn_pc, dmn_user_id, dmn_load, dmn_rules, dmn_answers, dmn_out>>

bridgeVars == <<br_pc, br_caller, br_in_loop, br_loop, br_thread, br_steps, br_coro, br_out>>

vars == <<retryVars, notifVars, humanVars, ctxVars, dbVars, loaderVars,
          shutdownVars, a2aVars, codeVars, dcVars, gwVars, loggerVars,
          runVars, mcpVars, warmVars, execVars, dmnVars, bridgeVars>>

\* what a step of one component leaves alone: the variables of the others
\* (save_notification_sync runs _retry_sync, so its steps own retryVars too)
frameRetry == <<notifVars, humanVars, ctxVars, dbVars, loaderVars, shutdownVars, a2aVars, codeVars, dcVars, gwVars, loggerVars, runVars, mcpVars, warmVars, execVars, dmnVars, bridgeVars>>
frameNotif == <<humanVars, ctxVars, dbVars, loaderVars, shutdownVars, a2aVars, codeVars, dcVars, gwVars, loggerVars, runVars, mcpVars, warmVars, execVars, dmnVars, bridgeVars>>
frameHuman == <<retryVars, notifVars, ctxVars, dbVars, loaderVars, shutdownVars, a2aVars, codeVars, dcVars, gwVars, loggerVars, runVars, mcpVars, warmVars, execVars, dmnVars, bridgeVars>>
frameCtx == <<retryVars, notifVars, humanVars, dbVars, loaderVars, shutdownVars, a2aVars, codeVars, dcVars, gwVars, loggerVars, runVars, mcpVars, warmVars, execVars, dmnVars, bridgeVars>>
frameDb == <<retryVars, notifVars, humanVars, ctxVars, loaderVars, shutdownVars, a2aVars, codeVars, dcVars, gwVars, loggerVars, runVars, mcpVars, warmVars, execVars, dmnVars, bridgeVars>>
frameLoader == <<retryVars, notifVars, humanVars, ctxVars, dbVars, shutdownVars, a2aVars, codeVars, dcVars, gwVars, loggerVars, runVars, mcpVars, warmVars, execVars, dmnVars, bridgeVars>>
frameShutdown == <<retryVars, notifVars, humanVars, ctxVars, dbVars, loaderVars, a2aVars, codeVars, dcVars, gwVars, loggerVars, runVars, mcpVars, warmVars, execVars, dmnVars, bridgeVars>>
frameA2A == <<retryVars, notifVars, humanVars, ctxVars, dbVars, loaderVars, shutdownVars, codeVars, dcVars, gwVars, loggerVars, runVars, mcpVars, warmVars, execVars, dmnVars, bridgeVars>>
frameCode == <<retryVars, notifVars, humanVars, ctxVars, dbVars, loaderVars, shutdownVars,
    a2aVars, dcVars, gwVars, loggerVars, runVars, mcpVars, warmVars, execVars, dmnVars, bridgeVars>>
frameDc == <<retryVars, notifVars, humanVars, ctxVars, dbVars, loaderVars, shutdownVars,
    a2aVars, codeVars, gwVars, loggerVars, runVars, mcpVars, warmVars, execVars, dmnVars, bridgeVars>>
frameGw == <<retryVars, notifVars, humanVars, ctxVars, dbVars, loaderVars, shutdownVars,
    a2aVars, codeVars, dcVars, loggerVars, runVars, mcpVars, warmVars, execVars, dmnVars, bridgeVars>>
frameLogger == <<retryVars, notifVars, humanVars, ctxVars, dbVars, loaderVars, shutdownVars,
    a2aVars, codeVars, dcVars, gwVars, runVars, mcpVars, warmVars, execVars, dmnVars, bridgeVars>>
frameRun == <<retryVars, notifVars, humanVars, ctxVars, dbVars, loaderVars, shutdownVars,
    a2aVars, codeVars, dcVars, gwVars, loggerVars, mcpVars, warmVars, execVars, dmnVars, bridgeVars>>
frameMcp == <<retryVars, notifVars, humanVars, ctxVars, dbVars, loaderVars, shutdownVars,
    a2aVars, codeVars, dcVars, gwVars, loggerVars, runVars, warmVars, execVars, dmnVars, bridgeVars>>
frameWarm == <<retryVars, notifVars, humanVars, ctxVars, dbVars, loaderVars, shutdownVars,
    a2aVars, codeVars, dcVars, gwVars, loggerVars, runVars, mcpVars, execVars, dmnVars, bridgeVars>>
frameExec == <<retryVars, notifVars, humanVars, ctxVars, dbVars, loaderVars, shutdownVars,
    a2aVars, codeVars, dcVars, gwVars, loggerVars, runVars, mcpVars, warmVars, dmnVars, bridgeVars>>
frameDmn == <<retryVars, notifVars, humanVars, ctxVars, dbVars, loaderVars, shutdownVars,
    a2aVars, codeVars, dcVars, gwVars, loggerVars, runVars, mcpVars, warmVars, execVars, bridgeVars>>
frameBridge == <<retryVars, notifVars, humanVars, ctxVars, dbVars, loaderVars, shutdownVars,
    a2aVars, codeVars, dcVars, gwVars, loggerVars, runVars, mcpVars, warmVars, execVars,
    dmnVars>>

-----------------------------------------------------------------------------
(* Bounds of the model *)

\* the largest retries argument a modelled call of _retry_sync is given
MaxRetriesArg == 3
\* the longest recipient CSV text
MaxCsvLen == 3
\* the longest time, in seconds, a backend call of a poll takes
MaxPollSecs == 1
\* the number of threads that call initialize_db and get_db_client
NumThreads == 2
\* the longest tool_names list
MaxNames == 2
\* the most fields one modelled call of set_context supplies
MaxSupplied == 1

\* the most adapters the registry holds when shutdown_all_adapters is called
MaxAdapters == 3

\* the most calls of upsert_mcp_python_code made for one key
MaxUpserts == 3

\* the most Event rows recorded for one task
MaxEvents == 2

\* the most backend calls in a row that fail
MaxBackendFailures == 3

\* the most polls of one run of the Human Query Tool
MaxRunPolls == 3

\* the most server keys in one tool_names list
MaxServers == 3

\* the longest args list of a server configuration
MaxArgs == 3

\* the most rules a user owns
MaxRules == 2
\* the most queries put to one Decision-Table Tool
MaxDmnQueries == 2

\* the most steps (awaits) of a coroutine run through the bridge
MaxCoroSteps == 5

(* Program constants *)

\* retries: int = 3
DefaultRetries == 3
\* base_delay: float = 0.8, in tenths of a second
BaseDelay == 8
\* random.uniform(0, 0.3): the jitter is below 0.3 s, in tenths of a second
JitterSup == 3
\* timeout_sec: int = 180
TimeoutSec == 180
\* poll_interval_sec: int = 5
PollIntervalSec == 5
\* if error_count >= 3
MaxPollErrors == 3

\* max_retries = 2
MaxLoadRetries == 2
\* retry_delay = 5
LoadRetryDelay == 5

-----------------------------------------------------------------------------
(* _retry_sync *)

RECURSIVE Pow2(_)
Pow2(n) == IF n <= 0 THEN 1 ELSE 2 * Pow2(n - 1)

\* jitter = random.uniform(0, 0.3): the values the call can return
Jitters == 0 .. (JitterSup - 1)

\* a backoff whose exponent is the attempt number instead of attempt - 1
BackoffOffByOne(a, jitter) == BaseDelay * Pow2(a) + jitter

\* delay = base_delay * (2 ** (attempt - 1)) + jitter
Backoff(a, jitter) == BaseDelay * Pow2(a - 1) + jitter

NoOutcome == [kind |-> "none", val |-> 0]

\* the error that is raised when all attempts failed: the first failure's
FinalErrorFirst(err, hist) ==
    CHOOSE i \in DOMAIN hist : hist[i] = "fail" /\ \A j \in 1 .. (i - 1) : hist[j] # "fail"

\* raise last_err
FinalError(err, hist) == err

\* a fallback whose failure is replaced by the operation's last error
FallbackOutcomeLastErr(fb_ok, err) ==
    IF fb_ok THEN [kind |-> "fallback_returned", val |-> 0]
    ELSE [kind |-> "raised", val |-> err]

\* try: return fallback()  except Exception as fb_err: raise fb_err
FallbackOutcome(fb_ok, err) ==
    IF fb_ok THEN [kind |-> "fallback_returned", val |-> 0]
    ELSE [kind |-> "fallback_raised", val |-> 0]

RetryIdle ==
    /\ retry_pc = "idle"
    /\ retries = 0
    /\ has_fallback = FALSE
    /\ attempt = 0
    /\ last_err = 0
    /\ fn_hist = <<>>
    /\ delay = 0
    /\ delays = <<>>
    /\ fb_calls = 0
    /\ retry_out = NoOutcome

\* the state at entry of _retry_sync(fn, retries=r, fallback=...)
RetryInit ==
    /\ retries \in 0 .. MaxRetriesArg
    /\ has_fallback \in BOOLEAN
    /\ retry_pc = IF retries >= 1 THEN "call" ELSE "final"
    /\ attempt = 1
    /\ last_err = 0
    /\ fn_hist = <<>>
    /\ delay = 0
    /\ delays = <<>>
    /\ fb_calls = 0
    /\ retry_out = NoOutcome

\* try: return fn()  -- fn returns: the wrapper returns fn's value
RetryCallOk ==
    /\ retry_pc = "call"
    /\ fn_hist' = Append(fn_hist, "ok")
    /\ retry_out' = [kind |-> "returned", val |-> Len(fn_hist) + 1]
    /\ retry_pc' = "done"
    /\ UNCHANGED <<retries, has_fallback, attempt, last_err, delay, delays, fb_calls>>

\* except Exception as e: last_err = e; jitter = ...; delay = ...
RetryCallFail ==
    /\ retry_pc = "call"
    /\ fn_hist' = Append(fn_hist, "fail")
    /\ last_err' = Len(fn_hist) + 1
    /\ \E jitter \in Jitters : delay' = Backoff(attempt, jitter)
    /\ retry_pc' = "sleep"
    /\ UNCHANGED <<retries, has_fallback, attempt, delays, fb_calls, retry_out>>

\* time.sleep(delay), then the next iteration of the for loop or its end
RetrySleep ==
    /\ retry_pc = "sleep"
    /\ delays' = Append(delays, delay)
    /\ delay' = 0
    /\ IF attempt < retries
         THEN attempt' = attempt + 1 /\ retry_pc' = "call"
         ELSE attempt' = attempt /\ retry_pc' = "final"
    /\ UNCHANGED <<retries, has_fallback, last_err, fn_hist, fb_calls, retry_out>>

\* after the loop: fallback() if supplied, else raise last_err;
\* raise RuntimeError when the loop never ran
RetryFinal ==
    /\ retry_pc = "final"
    /\ retry_pc' = "done"
    /\ IF last_err # 0
         THEN IF has_fallback
                THEN /\ fb_calls' = fb_calls + 1
                     /\ \E fb_ok \in BOOLEAN : retry_out' = FallbackOutcome(fb_ok, last_err)
                ELSE /\ fb_calls' = fb_calls
                     /\ retry_out' = [kind |-> "raised", val |-> FinalError(last_err, fn_hist)]
         ELSE /\ fb_calls' = fb_calls
              /\ retry_out' = [kind |-> "unexpected_state", val |-> 0]
    /\ UNCHANGED <<retries, has_fallback, attempt, last_err, fn_hist, delay, delays>>

\* the assignments that enter _retry_sync(fn, retries=r, fallback=fb) from a caller
RetryEnter(r, fb) ==
    /\ retries' = r
    /\ has_fallback' = fb
    /\ retry_pc' = IF r >= 1 THEN "call" ELSE "final"
    /\ attempt' = 1
    /\ last_err' = 0
    /\ fn_hist' = <<>>
    /\ delay' = 0
    /\ delays' = <<>>
    /\ fb_calls' = 0
    /\ retry_out' = NoOutcome

RetryNext ==
    \/ RetryCallOk /\ UNCHANGED frameRetry
    \/ RetryCallFail /\ UNCHANGED frameRetry
    \/ RetrySleep /\ UNCHANGED frameRetry
    \/ RetryFinal /\ UNCHANGED frameRetry

-----------------------------------------------------------------------------
(* save_notification_sync *)

\* the characters of a modelled CSV text: two id characters, a blank, the separator
CsvChars == {"a", "b", " ", ","}

RECURSIVE TextsOfLen(_)
TextsOfLen(n) ==
    IF n = 0 THEN {<<>>}
    ELSE {Append(t, c) : t \in TextsOfLen(n - 1), c \in CsvChars}

CsvTexts == UNION {TextsOfLen(n) : n \in 0 .. MaxCsvLen}

\* user_ids_csv: Optional[str]
CsvInputs ==
    {[is_none |-> TRUE, text |-> <<>>]} \cup {[is_none |-> FALSE, text |-> t] : t \in CsvTexts}

\* str.split(","): the pieces between the separators, empty pieces kept
RECURSIVE SplitFrom(_, _, _)
SplitFrom(s, i, cur) ==
    IF i > Len(s) THEN <<cur>>
    ELSE IF s[i] = "," THEN <<cur>> \o SplitFrom(s, i + 1, <<>>)
    ELSE SplitFrom(s, i + 1, Append(cur, s[i]))

Split(s) == SplitFrom(s, 1, <<>>)

RECURSIVE LStrip(_)
LStrip(s) == IF s # <<>> /\ Head(s) = " " THEN LStrip(Tail(s)) ELSE s

RECURSIVE RStrip(_)
RStrip(s) == IF s # <<>> /\ s[Len(s)] = " " THEN RStrip(SubSeq(s, 1, Len(s) - 1)) ELSE s

\* str.strip()
Strip(s) == RStrip(LStrip(s))

\* the first occurrence of each element of a sequence, in order
RECURSIVE Distinct(_)
Distinct(s) ==
    IF s = <<>> THEN <<>>
    ELSE LET init == Distinct(SubSeq(s, 1, Len(s) - 1))
             x == s[Len(s)]
         IN IF \E i \in DOMAIN init : init[i] = x THEN init ELSE Append(init, x)

\* a parse that drops the repeated ids
ParseUserIdsDistinct(text) ==
    LET kept == SelectSeq(Split(text), LAMBDA uid : uid # <<>> /\ Strip(uid) # <<>>)
    IN Distinct([i \in DOMAIN kept |-> Strip(kept[i])])

\* [uid.strip() for uid in user_ids_csv.split(",") if uid and uid.strip()]
ParseUserIds(text) ==
    LET kept == SelectSeq(Split(text), LAMBDA uid : uid # <<>> /\ Strip(uid) # <<>>)
    IN [i \in DOMAIN kept |-> Strip(kept[i])]

NotifIdle ==
    /\ notif_pc = "idle"
    /\ user_ids_csv = [is_none |-> TRUE, text |-> <<>>]
    /\ rows = <<>>
    /\ notifications = <<>>
    /\ backend_calls = 0
    /\ notif_out = "none"

\* the state at entry of save_notification_sync(user_ids_csv=...), the table empty
NotifInit ==
    /\ notif_pc = "start"
    /\ user_ids_csv \in CsvInputs
    /\ rows = <<>>
    /\ notifications = <<>>
    /\ backend_calls = 0
    /\ notif_out = "none"

\* if not user_ids_csv: return; user_ids = [...]; if not user_ids: return
NotifSkip ==
    /\ notif_pc = "start"
    /\ \/ user_ids_csv.is_none
       \/ user_ids_csv.text = <<>>
       \/ ParseUserIds(user_ids_csv.text) = <<>>
    /\ notif_pc' = "done"
    /\ notif_out' = "returned"
    /\ UNCHANGED <<user_ids_csv, rows, notifications, backend_calls>>
    /\ UNCHANGED <<retryVars, frameNotif>>

\* rows = [{... "user_id": uid ...} for uid in user_ids]; _retry_sync(_insert_call, retries=3)
NotifBuildRows ==
    /\ notif_pc = "start"
    /\ ~user_ids_csv.is_none
    /\ user_ids_csv.text # <<>>
    /\ ParseUserIds(user_ids_csv.text) # <<>>
    /\ rows' = ParseUserIds(user_ids_csv.text)
    /\ notif_pc' = "insert"
    /\ RetryEnter(DefaultRetries, FALSE)
    /\ UNCHANGED <<user_ids_csv, notifications, backend_calls, notif_out>>
    /\ UNCHANGED frameNotif

\* _insert_call: client.table("notifications").insert(rows).execute() succeeds
NotifInsertOk ==
    /\ notif_pc = "insert"
    /\ RetryCallOk
    /\ notifications' = notifications \o rows
    /\ backend_calls' = backend_calls + 1
    /\ UNCHANGED <<notif_pc, user_ids_csv, rows, notif_out>>
    /\ UNCHANGED frameNotif

\* _insert_call raises: the insert is refused by the backend, or never reaches it
NotifInsertFail ==
    /\ notif_pc = "insert"
    /\ RetryCallFail
    /\ \E reached \in BOOLEAN :
         backend_calls' = IF reached THEN backend_calls + 1 ELSE backend_calls
    /\ UNCHANGED <<notif_pc, user_ids_csv, rows, notifications, notif_out>>
    /\ UNCHANGED frameNotif

\* the wrapper sleeps after a failed insert
NotifRetrySleep ==
    /\ notif_pc = "insert"
    /\ RetrySleep
    /\ UNCHANGED <<notifVars, frameNotif>>

\* the wrapper ends with last_err after the last failed insert
NotifRetryFinal ==
    /\ notif_pc = "insert"
    /\ RetryFinal
    /\ UNCHANGED <<notifVars, frameNotif>>

\* inserted = _retry_sync(...) returned, or its error goes through except ...: raise
NotifFinish ==
    /\ notif_pc = "insert"
    /\ retry_pc = "done"
    /\ notif_pc' = "done"
    /\ notif_out' = IF retry_out.kind = "returned" THEN "returned" ELSE "raised"
    /\ UNCHANGED <<user_ids_csv, rows, notifications, backend_calls>>
    /\ UNCHANGED <<retryVars, frameNotif>>

NotifNext ==
    \/ NotifSkip
    \/ NotifBuildRows
    \/ NotifInsertOk
    \/ NotifInsertFail
    \/ NotifRetrySleep
    \/ NotifRetryFinal
    \/ NotifFinish

-----------------------------------------------------------------------------
(* HumanQueryTool._wait_for_response *)

\* the time a poll that raises has spent in the backoff of _retry_sync, in whole
\* seconds: fetch_human_response_sync raises after 3 failed attempts
PollBackoffSecs ==
    (Backoff(1, 0) + Backoff(2, 0) + Backoff(3, 0)) \div 10

\* the last three outcomes after one more poll
Polled(hist, outcome) ==
    IF Len(hist) < 3 THEN Append(hist, outcome) ELSE Append(Tail(hist), outcome)

\* while time.time() < deadline
BeforeDeadline(now, dl) == now < dl

\* an error counter that a poll without a response leaves as it is
CountAfterEmptyPollKept(count) == count

\* error_count = 0  (the poll succeeded and found no response)
CountAfterEmptyPoll(count) == 0

\* a timeout that is reported as an error
TimeoutOutcomeRaises == [kind |-> "raised", val |-> "TimeoutError"]

\* return "사용자 미응답 거절"  (the sentinel of a wait that timed out)
TimeoutOutcome == [kind |-> "returned", val |-> "sentinel"]

HumanIdle ==
    /\ hq_pc = "idle"
    /\ clock = 0
    /\ deadline = 0
    /\ error_count = 0
    /\ response = "none"
    /\ last_polls = <<>>
    /\ poll_raised = FALSE
    /\ responded_at = -1
    /\ hq_out = [kind |-> "none", val |-> "none"]

\* deadline = time.time() + timeout_sec; error_count = 0
HumanInit ==
    /\ hq_pc = "loop"
    /\ clock = 0
    /\ deadline = clock + TimeoutSec
    /\ error_count = 0
    /\ response = "none"
    /\ last_polls = <<>>
    /\ poll_raised = FALSE
    /\ responded_at = -1
    /\ hq_out = [kind |-> "none", val |-> "none"]

\* the human's answer is persisted as a human_response event of the job id
HumanResponds ==
    /\ hq_pc \in {"loop", "sleep"}
    /\ response = "none"
    /\ response' \in {"answer", "data"}
    /\ UNCHANGED <<hq_pc, clock, deadline, error_count, last_polls, poll_raised, hq_out>>
    /\ responded_at' = clock
    /\ UNCHANGED frameHuman

\* the loop condition fails: return the sentinel
WaitTimeout ==
    /\ hq_pc = "loop"
    /\ ~BeforeDeadline(clock, deadline)
    /\ hq_pc' = "done"
    /\ hq_out' = TimeoutOutcome
    /\ UNCHANGED <<clock, deadline, error_count, response, last_polls, poll_raised, responded_at>>
    /\ UNCHANGED frameHuman

\* event = fetch_human_response_sync(...) finds the event: return the answer, or
\* json.dumps(data) when the answer is no string
WaitPollFound ==
    /\ hq_pc = "loop"
    /\ BeforeDeadline(clock, deadline)
    /\ response # "none"
    /\ \E d \in 0 .. MaxPollSecs : clock' = clock + d
    /\ last_polls' = Polled(last_polls, "found")
    /\ hq_pc' = "done"
    /\ hq_out' = [kind |-> "returned", val |-> IF response = "answer" THEN "answer" ELSE "json"]
    /\ UNCHANGED <<deadline, error_count, response, poll_raised, responded_at>>
    /\ UNCHANGED frameHuman

\* the poll finds no event: error_count = 0, then time.sleep
WaitPollEmpty ==
    /\ hq_pc = "loop"
    /\ BeforeDeadline(clock, deadline)
    /\ response = "none"
    /\ \E d \in 0 .. MaxPollSecs : clock' = clock + d
    /\ last_polls' = Polled(last_polls, "empty")
    /\ error_count' = CountAfterEmptyPoll(error_count)
    /\ hq_pc' = "sleep"
    /\ UNCHANGED <<deadline, response, poll_raised, responded_at, hq_out>>
    /\ UNCHANGED frameHuman

\* the poll raises: error_count += 1; raise RuntimeError at 3, else time.sleep
WaitPollError ==
    /\ hq_pc = "loop"
    /\ BeforeDeadline(clock, deadline)
    /\ \E d \in 0 .. MaxPollSecs : clock' = clock + PollBackoffSecs + d
    /\ last_polls' = Polled(last_polls, "raise")
    /\ poll_raised' = TRUE
    /\ error_count' = error_count + 1
    /\ IF error_count + 1 >= MaxPollErrors
         THEN /\ hq_pc' = "done"
              /\ hq_out' = [kind |-> "aborted", val |-> "RuntimeError"]
         ELSE /\ hq_pc' = "sleep"
              /\ hq_out' = hq_out
    /\ UNCHANGED <<deadline, response, responded_at>>
    /\ UNCHANGED frameHuman

\* time.sleep(poll_interval_sec)
WaitSleep ==
    /\ hq_pc = "sleep"
    /\ clock' = clock + PollIntervalSec
    /\ hq_pc' = "loop"
    /\ UNCHANGED <<deadline, error_count, response, last_polls, poll_raised, responded_at, hq_out>>
    /\ UNCHANGED frameHuman

WaitStep == WaitTimeout \/ WaitPollFound \/ WaitPollEmpty \/ WaitPollError \/ WaitSleep

HumanNext ==
    \/ HumanResponds
    \/ WaitTimeout
    \/ WaitPollFound
    \/ WaitPollEmpty
    \/ WaitPollError
    \/ WaitSleep

-----------------------------------------------------------------------------
(* The Context Store *)

None == "None"

\* the six ContextVars
Fields == {"proc_inst_id", "task_id", "crew_type", "users_email", "form_def_id", "form_key"}

\* two concurrent logical task executions, each running in its own context
Execs == {"A", "B"}

\* the values an execution passes to set_context: different ones in each execution
ValuesOf == [e \in Execs |-> IF e = "A" THEN {"a1", "a2"} ELSE {"b1"}]

\* the keyword arguments of a call of set_context: None is an omitted field
SuppliedSets == {S \in SUBSET Fields : Cardinality(S) <= MaxSupplied}

ArgsOf ==
    [e \in Execs |->
        UNION {{[f \in Fields |-> IF f \in S THEN m[f] ELSE None] : m \in [S -> ValuesOf[e]]} :
                  S \in SuppliedSets}]

\* a variable that is one global slot: a set is seen by every execution
VarSetGlobal(st, f, e, v) == [st EXCEPT ![f] = [x \in Execs |-> v]]

\* ContextVar.set(v), called in execution e: the value is bound in e's context
VarSet(st, f, e, v) == [st EXCEPT ![f][e] = v]

\* ContextVar.get(), called in execution e (default=None)
VarGet(st, f, e) == st[f][e]

\* a set_context that assigns all six variables, the omitted ones to None
SetContextAll(st, e, a) ==
    LET s1 == VarSet(st, "proc_inst_id", e, a.proc_inst_id)
        s2 == VarSet(s1, "task_id", e, a.task_id)
        s3 == VarSet(s2, "crew_type", e, a.crew_type)
        s4 == VarSet(s3, "users_email", e, a.users_email)
        s5 == VarSet(s4, "form_def_id", e, a.form_def_id)
    IN VarSet(s5, "form_key", e, a.form_key)

\* set_context(**a), called in execution e
SetContext(st, e, a) ==
    LET s1 == IF a.proc_inst_id # None THEN VarSet(st, "proc_inst_id", e, a.proc_inst_id) ELSE st
        s2 == IF a.task_id # None THEN VarSet(s1, "task_id", e, a.task_id) ELSE s1
        s3 == IF a.crew_type # None THEN VarSet(s2, "crew_type", e, a.crew_type) ELSE s2
        s4 == IF a.users_email # None THEN VarSet(s3, "users_email", e, a.users_email) ELSE s3
        s5 == IF a.form_def_id # None THEN VarSet(s4, "form_def_id", e, a.form_def_id) ELSE s4
    IN IF a.form_key # None THEN VarSet(s5, "form_key", e, a.form_key) ELSE s5

\* reset_context(), called in execution e
ResetContext(st, e) ==
    LET s1 == VarSet(st, "proc_inst_id", e, None)
        s2 == VarSet(s1, "task_id", e, None)
        s3 == VarSet(s2, "crew_type", e, None)
        s4 == VarSet(s3, "users_email", e, None)
        s5 == VarSet(s4, "form_def_id", e, None)
    IN VarSet(s5, "form_key", e, None)

\* get_context_snapshot(), called in execution e
GetContextSnapshot(st, e) ==
    [proc_inst_id |-> VarGet(st, "proc_inst_id", e),
     task_id |-> VarGet(st, "task_id", e),
     crew_type |-> VarGet(st, "crew_type", e),
     users_email |-> VarGet(st, "users_email", e),
     form_def_id |-> VarGet(st, "form_def_id", e),
     form_key |-> VarGet(st, "form_key", e)]

CtxIdle ==
    /\ store = [f \in Fields |-> [e \in Execs |-> None]]
    /\ ctx_actor = "idle"
    /\ supplied = [e \in Execs |-> [f \in Fields |-> None]]

\* every ContextVar holds its default in both contexts
CtxInit ==
    /\ store = [f \in Fields |-> [e \in Execs |-> None]]
    /\ ctx_actor = "none"
    /\ supplied = [e \in Execs |-> [f \in Fields |-> None]]

\* execution e calls set_context(**a)
CallSetContext ==
    /\ ctx_actor # "idle"
    /\ \E e \in Execs : \E a \in ArgsOf[e] :
         /\ store' = SetContext(store, e, a)
         /\ ctx_actor' = e
         /\ supplied' = [supplied EXCEPT ![e] =
                            [f \in Fields |-> IF a[f] # None THEN a[f] ELSE @[f]]]
    /\ UNCHANGED frameCtx

\* execution e calls reset_context()
CallResetContext ==
    /\ ctx_actor # "idle"
    /\ \E e \in Execs :
         /\ store' = ResetContext(store, e)
         /\ ctx_actor' = e
         /\ supplied' = [supplied EXCEPT ![e] = [f \in Fields |-> None]]
    /\ UNCHANGED frameCtx

CtxNext == CallSetContext \/ CallResetContext

-----------------------------------------------------------------------------
(* initialize_db and get_db_client *)

Threads == 1 .. NumThreads

\* if _db_client is not None: return
ClientIsSet(c) == c # 0

\* if not supabase_url or not supabase_key: raise RuntimeError
ConfigMissing(e) == ~e.url \/ ~e.key

\* get_db_client(): raise RuntimeError when _db_client is None, else return it
GetDbClient(c) == IF c = 0 THEN 0 ELSE c

DbIdle ==
    /\ db_client = 0
    /\ env = [url |-> FALSE, key |-> FALSE]
    /\ init_pc = [t \in Threads |-> "off"]
    /\ init_local = [t \in Threads |-> 0]
    /\ init_out = [t \in Threads |-> "none"]
    /\ created = 0
    /\ assigned = <<>>
    /\ got = {}

\* _db_client: Optional[Client] = None, in an environment that may lack the
\* URL (SUPABASE_URL, SUPABASE_KEY_URL) or the key (SUPABASE_KEY, SUPABASE_ANON_KEY)
DbInit ==
    /\ db_client = 0
    /\ env \in [url : BOOLEAN, key : BOOLEAN]
    /\ init_pc = [t \in Threads |-> "idle"]
    /\ init_local = [t \in Threads |-> 0]
    /\ init_out = [t \in Threads |-> "none"]
    /\ created = 0
    /\ assigned = <<>>
    /\ got = {}

\* the environment is given the URL and the key
EnvConfigured ==
    /\ \E t \in Threads : init_pc[t] # "off"
    /\ ~(env.url /\ env.key)
    /\ env' = [url |-> TRUE, key |-> TRUE]
    /\ UNCHANGED <<db_client, init_pc, init_local, init_out, created, assigned, got>>
    /\ UNCHANGED frameDb

\* thread t calls initialize_db(): global _db_client; if _db_client is not None: return
InitCheck(t) ==
    /\ init_pc[t] = "idle"
    /\ IF ClientIsSet(db_client)
         THEN /\ init_pc' = init_pc
              /\ init_out' = [init_out EXCEPT ![t] = "noop"]
         ELSE /\ init_pc' = [init_pc EXCEPT ![t] = "read_env"]
              /\ init_out' = [init_out EXCEPT ![t] = "none"]
    /\ UNCHANGED <<db_client, env, init_local, created, assigned, got>>
    /\ UNCHANGED frameDb

\* load_dotenv(); supabase_url = ...; supabase_key = ...; raise when one is missing
InitReadEnv(t) ==
    /\ init_pc[t] = "read_env"
    /\ IF ConfigMissing(env)
         THEN /\ init_pc' = [init_pc EXCEPT ![t] = "idle"]
              /\ init_out' = [init_out EXCEPT ![t] = "raised"]
         ELSE /\ init_pc' = [init_pc EXCEPT ![t] = "create"]
              /\ init_out' = init_out
    /\ UNCHANGED <<db_client, env, init_local, created, assigned, got>>
    /\ UNCHANGED frameDb

\* create_client(supabase_url, supabase_key) builds a client
InitCreate(t) ==
    /\ init_pc[t] = "create"
    /\ created' = created + 1
    /\ init_local' = [init_local EXCEPT ![t] = created + 1]
    /\ init_pc' = [init_pc EXCEPT ![t] = "assign"]
    /\ UNCHANGED <<db_client, env, init_out, assigned, got>>
    /\ UNCHANGED frameDb

\* create_client raises: except Exception: raise
InitCreateFails(t) ==
    /\ init_pc[t] = "create"
    /\ init_pc' = [init_pc EXCEPT ![t] = "idle"]
    /\ init_out' = [init_out EXCEPT ![t] = "raised"]
    /\ UNCHANGED <<db_client, env, init_local, created, assigned, got>>
    /\ UNCHANGED frameDb

\* _db_client = <the client built>, and the call returns
InitAssign(t) ==
    /\ init_pc[t] = "assign"
    /\ db_client' = init_local[t]
    /\ assigned' = Append(assigned, init_local[t])
    /\ init_pc' = [init_pc EXCEPT ![t] = "idle"]
    /\ init_out' = [init_out EXCEPT ![t] = "ok"]
    /\ UNCHANGED <<env, init_local, created, got>>
    /\ UNCHANGED frameDb

\* thread t calls get_db_client()
CallGetDbClient(t) ==
    /\ init_pc[t] = "idle"
    /\ got' = got \cup {GetDbClient(db_client)}
    /\ UNCHANGED <<db_client, env, init_pc, init_local, init_out, created, assigned>>
    /\ UNCHANGED frameDb

DbNext ==
    \/ EnvConfigured
    \/ \E t \in Threads : InitCheck(t)
    \/ \E t \in Threads : InitReadEnv(t)
    \/ \E t \in Threads : InitCreate(t)
    \/ \E t \in Threads : InitCreateFails(t)
    \/ \E t \in Threads : InitAssign(t)
    \/ \E t \in Threads : CallGetDbClient(t)

-----------------------------------------------------------------------------
(* SafeToolLoader.create_tools_from_names *)

\* A name is a sequence of symbols, each standing for a stretch of characters:
\* " " is white space, "a2a:" and "A2A:" are the peer-agent prefix in two cases.
NameSamples ==
    {<<"mem0">>, <<" ", "MEM0", " ">>, <<"memento">>, <<"human_asked">>,
     <<"a2a:", "airbnb">>, <<"A2A:", " ", "jira">>, <<" ", "a2a:", "airbnb">>,
     <<"search_flights">>, <<"SEARCH_FLIGHTS", " ">>, <<"mem0", "x">>}

RECURSIVE NameLists(_)
NameLists(n) ==
    IF n = 0 THEN {<<>>}
    ELSE {Append(l, x) : l \in NameLists(n - 1), x \in NameSamples}

ToolNameInputs == UNION {NameLists(n) : n \in 0 .. MaxNames}

AgentTypes == {"", "a2a", "A2A", "crew"}

\* str.lower() of one symbol
LowerSym(c) ==
    CASE c = "A2A:" -> "a2a:"
      [] c = "A2A" -> "a2a"
      [] c = "MEM0" -> "mem0"
      [] c = "SEARCH_FLIGHTS" -> "search_flights"
      [] OTHER -> c

\* str.lower()
Lower(s) == [i \in DOMAIN s |-> LowerSym(s[i])]

\* self.local_tools = ["mem0", "memento", "human_asked"]
LocalTools == {<<"mem0">>, <<"memento">>, <<"human_asked">>}

\* key = name.strip().lower()
KeyOf(name) == Lower(Strip(name))

\* if key in self.local_tools: continue
IsLocalKey(key) == key \in LocalTools

\* a loop that never takes a key for a peer-agent name
IsA2AKeyNever(key) == FALSE

\* if key.startswith("a2a:"): continue
IsA2AKey(key) == key # <<>> /\ Head(key) = "a2a:"

\* isinstance(name, str) and name.lower().startswith("a2a:")
IsA2ACandidate(name) == name # <<>> /\ Head(Lower(name)) = "a2a:"

\* name.split(":", 1)[1].strip()
CandidateOf(name) == Strip(Tail(name))

\* (agent_type or "").lower() == "a2a"
IsA2AAgent(t) == LowerSym(t) = "a2a"

\* a2a_candidates, as the for loop over tool_names builds it
A2ACandidates(names) ==
    LET kept == SelectSeq(names, IsA2ACandidate)
    IN [i \in DOMAIN kept |-> CandidateOf(kept[i])]

\* the tools of _load_mem0, _load_memento and _load_human_asked, in this order
LocalToolsLoaded(ids) ==
    (IF ids.user THEN <<[kind |-> "local", name |-> <<"mem0">>]>> ELSE <<>>)
    \o (IF ids.tenant THEN <<[kind |-> "local", name |-> <<"memento">>]>> ELSE <<>>)
    \o (IF ids.tenant /\ ids.agent
          THEN <<[kind |-> "local", name |-> <<"human_asked">>]>> ELSE <<>>)

\* the configurations `_get_mcp_config(key)` can return: none, a command other
\* than npx, npx with args ["-y", pkg], npx with args ["-y"], npx without "-y"
ServerConfigs == {"none", "other", "npx_pkg", "npx_bare", "npx_noflag"}

\* warmup_server(key) raises: pkg = args[1] when args is ["-y"]
WarmupRaises(cfg) == cfg = "npx_bare"

\* the outcomes of _load_mcp_tool(key): [] without a configuration; else the
\* adapter's tools, or the error of the last failed attempt
McpLoadOutcomes(cfg) == IF cfg = "none" THEN {"no_config"} ELSE {"loaded", "raised"}

LoaderIdle ==
    /\ tl_pc = "idle"
    /\ tool_names = <<>>
    /\ agent_type = ""
    /\ loader_ids = [user |-> FALSE, tenant |-> FALSE, agent |-> FALSE]
    /\ tl_i = 0
    /\ a2a_candidates = <<>>
    /\ a2a_results = <<>>
    /\ warmed = <<>>
    /\ mcp_loaded = <<>>
    /\ tools = <<>>
    /\ tl_out = "none"

\* the state at entry of create_tools_from_names(tool_names, agent_type, ...)
LoaderInit ==
    /\ tl_pc = "local"
    /\ tool_names \in ToolNameInputs
    /\ agent_type \in AgentTypes
    /\ loader_ids \in [user : BOOLEAN, tenant : BOOLEAN, agent : BOOLEAN]
    /\ tl_i = 0
    /\ a2a_candidates = <<>>
    /\ a2a_results = <<>>
    /\ warmed = <<>>
    /\ mcp_loaded = <<>>
    /\ tools = <<>>
    /\ tl_out = "none"

\* tools.extend(mem0_tools); tools.extend(memento_tools); tools.extend(human_asked_tools)
LoadLocalTools ==
    /\ tl_pc = "local"
    /\ tools' = LocalToolsLoaded(loader_ids)
    /\ tl_pc' = "a2a"
    /\ UNCHANGED <<tool_names, agent_type, loader_ids, tl_i, a2a_candidates, a2a_results,
                   warmed, mcp_loaded, tl_out>>
    /\ UNCHANGED frameLoader

\* the constructor of a local tool raises: the loader logs and raises
LoadLocalToolsFails ==
    /\ tl_pc = "local"
    /\ loader_ids.user \/ loader_ids.tenant
    /\ tl_pc' = "done"
    /\ tl_out' = "raised"
    /\ UNCHANGED <<tool_names, agent_type, loader_ids, tl_i, a2a_candidates, a2a_results,
                   warmed, mcp_loaded, tools>>
    /\ UNCHANGED frameLoader

\* agent_type is "a2a" and some name has the prefix: tools.extend(_load_a2a_tools(...)),
\* which builds a tool for each candidate whose endpoint resolves and whose
\* creation succeeds, and swallows every failure
LoadA2ATools ==
    /\ tl_pc = "a2a"
    /\ IsA2AAgent(agent_type)
    /\ A2ACandidates(tool_names) # <<>>
    /\ a2a_candidates' = A2ACandidates(tool_names)
    /\ \E res \in [DOMAIN A2ACandidates(tool_names) -> BOOLEAN] :
         /\ a2a_results' = res
         /\ tools' = tools \o
              LET built == SelectSeq([i \in DOMAIN res |-> [ok |-> res[i], name |-> A2ACandidates(tool_names)[i]]],
                                     LAMBDA r : r.ok)
              IN [i \in DOMAIN built |-> [kind |-> "a2a", name |-> built[i].name]]
    /\ tl_pc' = "mcp"
    /\ tl_i' = 1
    /\ UNCHANGED <<tool_names, agent_type, loader_ids, warmed, mcp_loaded, tl_out>>
    /\ UNCHANGED frameLoader

\* agent_type is not "a2a", or no name has the prefix
SkipA2ATools ==
    /\ tl_pc = "a2a"
    /\ ~IsA2AAgent(agent_type) \/ A2ACandidates(tool_names) = <<>>
    /\ a2a_candidates' = IF IsA2AAgent(agent_type) THEN A2ACandidates(tool_names) ELSE <<>>
    /\ tl_pc' = "mcp"
    /\ tl_i' = 1
    /\ UNCHANGED <<tool_names, agent_type, loader_ids, a2a_results, warmed, mcp_loaded,
                   tools, tl_out>>
    /\ UNCHANGED frameLoader

\* for name in tool_names: the key is a local tool or has the a2a: prefix: continue
SkipName ==
    /\ tl_pc = "mcp"
    /\ tl_i <= Len(tool_names)
    /\ IsLocalKey(KeyOf(tool_names[tl_i])) \/ IsA2AKey(KeyOf(tool_names[tl_i]))
    /\ tl_i' = tl_i + 1
    /\ UNCHANGED <<tl_pc, tool_names, agent_type, loader_ids, a2a_candidates, a2a_results,
                   warmed, mcp_loaded, tools, tl_out>>
    /\ UNCHANGED frameLoader

\* self.warmup_server(key); mcp_tools = self._load_mcp_tool(key); tools.extend(mcp_tools)
LoadServer ==
    /\ tl_pc = "mcp"
    /\ tl_i <= Len(tool_names)
    /\ ~IsLocalKey(KeyOf(tool_names[tl_i]))
    /\ ~IsA2AKey(KeyOf(tool_names[tl_i]))
    /\ warmed' = Append(warmed, [i |-> tl_i, key |-> KeyOf(tool_names[tl_i])])
    /\ \E cfg \in ServerConfigs :
         IF WarmupRaises(cfg)
           THEN /\ tl_pc' = "done"
                /\ tl_out' = "raised"
                /\ UNCHANGED <<tl_i, mcp_loaded, tools>>
           ELSE /\ mcp_loaded' = Append(mcp_loaded, [i |-> tl_i, key |-> KeyOf(tool_names[tl_i])])
                /\ \E outcome \in McpLoadOutcomes(cfg) :
                     CASE outcome = "no_config" ->
                            /\ tl_i' = tl_i + 1
                            /\ UNCHANGED <<tl_pc, tools, tl_out>>
                       [] outcome = "loaded" ->
                            /\ tools' = Append(tools, [kind |-> "mcp", name |-> KeyOf(tool_names[tl_i])])
                            /\ tl_i' = tl_i + 1
                            /\ UNCHANGED <<tl_pc, tl_out>>
                       [] outcome = "raised" ->
                            /\ tl_pc' = "done"
                            /\ tl_out' = "raised"
                            /\ UNCHANGED <<tl_i, tools>>
    /\ UNCHANGED <<tool_names, agent_type, loader_ids, a2a_candidates, a2a_results>>
    /\ UNCHANGED frameLoader

\* return tools
ReturnTools ==
    /\ tl_pc = "mcp"
    /\ tl_i > Len(tool_names)
    /\ tl_pc' = "done"
    /\ tl_out' = "returned"
    /\ UNCHANGED <<tool_names, agent_type, loader_ids, tl_i, a2a_candidates, a2a_results,
                   warmed, mcp_loaded, tools>>
    /\ UNCHANGED frameLoader

LoaderNext ==
    \/ LoadLocalTools
    \/ LoadLocalToolsFails
    \/ LoadA2ATools
    \/ SkipA2ATools
    \/ SkipName
    \/ LoadServer
    \/ ReturnTools

-----------------------------------------------------------------------------
(* SafeToolLoader.shutdown_all_adapters *)

\* the server keys the registered adapters were started for
AdapterKeys == {"search_flights", "weather"}

\* an MCPServerAdapter in the registry, and whether its stop() raises
AdapterKinds == [key : AdapterKeys, stop_fails : BOOLEAN]

RECURSIVE AdapterLists(_)
AdapterLists(n) ==
    IF n = 0 THEN {<<>>}
    ELSE {Append(l, a) : l \in AdapterLists(n - 1), a \in AdapterKinds}

\* adapters = []  (the class attribute, before any adapter is registered)
ShutdownIdle ==
    /\ adapters = <<>>
    /\ sd_pc = "idle"
    /\ sd_i = 0
    /\ stopped = <<>>
    /\ sd_out = "none"

\* the state at entry of shutdown_all_adapters(), with the adapters that
\* _load_mcp_tool has registered
ShutdownInit ==
    /\ adapters \in UNION {AdapterLists(n) : n \in 0 .. MaxAdapters}
    /\ sd_pc = "loop"
    /\ sd_i = 1
    /\ stopped = <<>>
    /\ sd_out = "none"

\* cls.adapters.clear()
ClearRegistry(reg) == <<>>

\* a loop that passes over every other adapter
NextToStopSkipping(i) == i + 2

\* for i, adapter in enumerate(cls.adapters): the position visited after i
NextToStop(i) == i + 1

\* adapter.stop() returns
StopAdapter ==
    /\ sd_pc = "loop"
    /\ sd_i <= Len(adapters)
    /\ ~adapters[sd_i].stop_fails
    /\ stopped' = Append(stopped, sd_i)
    /\ sd_i' = NextToStop(sd_i)
    /\ UNCHANGED <<adapters, sd_pc, sd_out>>
    /\ UNCHANGED frameShutdown

\* adapter.stop() raises: except Exception: logger.error(...); raise
StopAdapterFails ==
    /\ sd_pc = "loop"
    /\ sd_i <= Len(adapters)
    /\ adapters[sd_i].stop_fails
    /\ sd_pc' = "done"
    /\ sd_out' = "raised"
    /\ UNCHANGED <<adapters, sd_i, stopped>>
    /\ UNCHANGED frameShutdown

\* the loop is over: cls.adapters.clear(), and the call returns
ShutdownClear ==
    /\ sd_pc = "loop"
    /\ sd_i > Len(adapters)
    /\ adapters' = ClearRegistry(adapters)
    /\ sd_pc' = "done"
    /\ sd_out' = "returned"
    /\ UNCHANGED <<sd_i, stopped>>
    /\ UNCHANGED frameShutdown

ShutdownNext ==
    \/ StopAdapter
    \/ StopAdapterFails
    \/ ShutdownClear

-----------------------------------------------------------------------------
(* A2AAgentTool._arun and A2AAgentToolInput *)

\* message: absent (None), the empty string, or a text
A2AMessages == {"None", "empty", "text"}

\* payload: absent (None), {}, a dict json.dumps can encode, or a dict holding
\* a value it cannot encode
A2APayloads == {"None", "empty", "dict", "dict_unencodable"}

\* keyword arguments that are not fields of the input model: none, some
A2AExtras == {"none", "some"}

\* skill, with a payload that has or lacks the fields of the airbnb_search format
A2ASkills == {"None", "airbnb_search"}

\* the keyword arguments of a call; typed: every field has a value of its type
A2AKwargs ==
    [message : A2AMessages, payload : A2APayloads, extra : A2AExtras,
     skill : A2ASkills, typed : BOOLEAN]

\* the truth value of a message or a payload
Truthy(x) == x \notin {"None", "empty"}

\* A2AAgentToolInput._ensure_any_input: the model is accepted as it is when
\* message or payload is set, the extra keys become the payload when there are
\* some, and else ValueError is raised
EnsureAnyInput(kw) ==
    IF Truthy(kw.message) \/ Truthy(kw.payload) THEN [ok |-> TRUE, payload |-> kw.payload]
    ELSE IF kw.extra = "some" THEN [ok |-> TRUE, payload |-> "dict"]
    ELSE [ok |-> FALSE, payload |-> kw.payload]

\* _format_payload_to_message(skill, payload): the airbnb_search sentence, or
\* json.dumps(payload), which raises TypeError on a value it cannot encode
FormatPayloadToMessage(skill, payload) ==
    IF skill = "airbnb_search" /\ payload = "dict" THEN {"sentence", "json"}
    ELSE IF skill = "airbnb_search" /\ payload = "dict_unencodable" THEN {"sentence", "TypeError"}
    ELSE IF payload = "dict_unencodable" THEN {"TypeError"}
    ELSE {"json"}

NoA2AOutcome == [kind |-> "none", val |-> "none"]

\* {"error": "Either 'message' or 'payload' is required."}
A2AInputError == [kind |-> "returned", val |-> [keys |-> {"error"}, result |-> "none", note |-> FALSE]]

\* {"result": result_text, "meta": {"task_state": ..., "history": ...}}
A2AResult == [kind |-> "returned", val |-> [keys |-> {"result", "meta"}, result |-> "text", note |-> FALSE]]

\* {"result": "", "meta": {"task_state": "simulated", "note": ...}, "error": str(e)}
A2AConnectFailed ==
    [kind |-> "returned", val |-> [keys |-> {"result", "meta", "error"}, result |-> "", note |-> TRUE]]

\* {"error": "<type>: <message>"}
A2ACallError == [kind |-> "returned", val |-> [keys |-> {"error"}, result |-> "none", note |-> FALSE]]

A2ARaised(err) == [kind |-> "raised", val |-> err]

A2AIdle ==
    /\ a2a_pc = "idle"
    /\ a2a_kwargs = [message |-> "None", payload |-> "None", extra |-> "none",
                     skill |-> "None", typed |-> TRUE]
    /\ a2a_params = [message |-> "None", payload |-> "None"]
    /\ a2a_message = "None"
    /\ a2a_sent = 0
    /\ a2a_out = NoA2AOutcome

\* the state at entry of _arun(**kwargs)
A2AInit ==
    /\ a2a_pc = "validate"
    /\ a2a_kwargs \in A2AKwargs
    /\ a2a_params = [message |-> "None", payload |-> "None"]
    /\ a2a_message = "None"
    /\ a2a_sent = 0
    /\ a2a_out = NoA2AOutcome

\* params = self.args_schema(**kwargs): the model is built
ArunValidate ==
    /\ a2a_pc = "validate"
    /\ a2a_kwargs.typed
    /\ EnsureAnyInput(a2a_kwargs).ok
    /\ a2a_params' = [message |-> a2a_kwargs.message, payload |-> EnsureAnyInput(a2a_kwargs).payload]
    /\ a2a_pc' = "resolve"
    /\ UNCHANGED <<a2a_kwargs, a2a_message, a2a_sent, a2a_out>>
    /\ UNCHANGED frameA2A

\* params = self.args_schema(**kwargs): a field has a value of another type, or
\* the validator raises ValueError: pydantic raises ValidationError out of _arun
ArunValidateFails ==
    /\ a2a_pc = "validate"
    /\ ~a2a_kwargs.typed \/ ~EnsureAnyInput(a2a_kwargs).ok
    /\ a2a_pc' = "done"
    /\ a2a_out' = A2ARaised("ValidationError")
    /\ UNCHANGED <<a2a_kwargs, a2a_params, a2a_message, a2a_sent>>
    /\ UNCHANGED frameA2A

\* if not message and payload is not None: message = _format_payload_to_message(...)
\* elif not message and payload is None: return the input error
ArunResolveMessage ==
    /\ a2a_pc = "resolve"
    /\ IF Truthy(a2a_params.message)
         THEN /\ a2a_message' = "text"
              /\ a2a_pc' = "send"
              /\ UNCHANGED a2a_out
         ELSE IF a2a_params.payload # "None"
           THEN \E m \in FormatPayloadToMessage(a2a_kwargs.skill, a2a_params.payload) :
                  IF m = "TypeError"
                    THEN /\ a2a_pc' = "done"
                         /\ a2a_out' = A2ARaised("TypeError")
                         /\ UNCHANGED a2a_message
                    ELSE /\ a2a_message' = m
                         /\ a2a_pc' = "send"
                         /\ UNCHANGED a2a_out
           ELSE /\ a2a_pc' = "done"
                /\ a2a_out' = A2AInputError
                /\ UNCHANGED a2a_message
    /\ UNCHANGED <<a2a_kwargs, a2a_params, a2a_sent>>
    /\ UNCHANGED frameA2A

\* resp = await client.send_message(req); return json.dumps({"result": ..., "meta": ...})
ArunSend ==
    /\ a2a_pc = "send"
    /\ a2a_sent' = a2a_sent + 1
    /\ a2a_pc' = "done"
    /\ a2a_out' = A2AResult
    /\ UNCHANGED <<a2a_kwargs, a2a_params, a2a_message>>
    /\ UNCHANGED frameA2A

\* except httpx.ConnectError
ArunSendConnectError ==
    /\ a2a_pc = "send"
    /\ a2a_sent' = a2a_sent + 1
    /\ a2a_pc' = "done"
    /\ a2a_out' = A2AConnectFailed
    /\ UNCHANGED <<a2a_kwargs, a2a_params, a2a_message>>
    /\ UNCHANGED frameA2A

\* except Exception
ArunSendError ==
    /\ a2a_pc = "send"
    /\ a2a_sent' = a2a_sent + 1
    /\ a2a_pc' = "done"
    /\ a2a_out' = A2ACallError
    /\ UNCHANGED <<a2a_kwargs, a2a_params, a2a_message>>
    /\ UNCHANGED frameA2A

A2ANext ==
    \/ ArunValidate
    \/ ArunValidateFails
    \/ ArunResolveMessage
    \/ ArunSend
    \/ ArunSendConnectError
    \/ ArunSendError

-----------------------------------------------------------------------------
(* fetch_mcp_python_code and upsert_mcp_python_code *)

\* the callers that generate code for the same key
Upserters == {1, 2}

\* the code argument
Codes == {"code_a", "code_b"}

\* fetch_mcp_python_code: .order("created_at", desc=True).limit(1); rows[0] if rows else None
FetchMcpPythonCode(table) == IF table = <<>> THEN 0 ELSE table[Len(table)].id

\* an upsert that never carries the id of the row found
UpsertIdNever(existing) == 0

\* if existing: data["id"] = existing["id"]   (0: data has no id)
UpsertId(existing) == existing

\* client.table("mcp_python_code").upsert(data).execute(): the row with data's id
\* is replaced; without an id, or without such a row, a row with a new id is inserted
UpsertRow(table, id, code) ==
    IF id # 0 /\ \E i \in DOMAIN table : table[i].id = id
      THEN [i \in DOMAIN table |-> IF table[i].id = id THEN [id |-> id, code |-> code] ELSE table[i]]
      ELSE Append(table, [id |-> Len(table) + 1, code |-> code])

CodeIdle ==
    /\ code_rows = <<>>
    /\ up_pc = [u \in Upserters |-> "off"]
    /\ up_existing = [u \in Upserters |-> 0]
    /\ up_code = [u \in Upserters |-> "none"]
    /\ up_calls = 0
    /\ up_done = 0
    /\ last_upsert = "none"
    /\ overlapped = FALSE

\* no generated code is stored for the key, no call is in progress
CodeInit ==
    /\ code_rows = <<>>
    /\ up_pc = [u \in Upserters |-> "idle"]
    /\ up_existing = [u \in Upserters |-> 0]
    /\ up_code = [u \in Upserters |-> "none"]
    /\ up_calls = 0
    /\ up_done = 0
    /\ last_upsert = "none"
    /\ overlapped = FALSE

\* another caller is between its fetch and its upsert
OtherInProgress(u) == \E v \in Upserters \ {u} : up_pc[v] = "fetched"

\* caller u calls upsert_mcp_python_code(code=...):
\* existing = fetch_mcp_python_code(proc_def_id, activity_id, tenant_id)
UpsertFetch(u) ==
    /\ up_pc[u] = "idle"
    /\ up_calls < MaxUpserts
    /\ \E code \in Codes : up_code' = [up_code EXCEPT ![u] = code]
    /\ up_existing' = [up_existing EXCEPT ![u] = FetchMcpPythonCode(code_rows)]
    /\ up_pc' = [up_pc EXCEPT ![u] = "fetched"]
    /\ up_calls' = up_calls + 1
    /\ overlapped' = (overlapped \/ OtherInProgress(u))
    /\ UNCHANGED <<code_rows, up_done, last_upsert>>
    /\ UNCHANGED frameCode

\* the fetch raises: the call raises before it writes
UpsertFetchFails(u) ==
    /\ up_pc[u] = "idle"
    /\ up_calls < MaxUpserts
    /\ up_calls' = up_calls + 1
    /\ overlapped' = (overlapped \/ OtherInProgress(u))
    /\ UNCHANGED <<code_rows, up_pc, up_existing, up_code, up_done, last_upsert>>
    /\ UNCHANGED frameCode

\* resp = client.table("mcp_python_code").upsert(data).execute(); return rows[0]["id"]
UpsertWrite(u) ==
    /\ up_pc[u] = "fetched"
    /\ code_rows' = UpsertRow(code_rows, UpsertId(up_existing[u]), up_code[u])
    /\ up_pc' = [up_pc EXCEPT ![u] = "idle"]
    /\ up_done' = up_done + 1
    /\ last_upsert' = up_code[u]
    /\ UNCHANGED <<up_existing, up_code, up_calls, overlapped>>
    /\ UNCHANGED frameCode

\* the upsert raises: nothing is written
UpsertWriteFails(u) ==
    /\ up_pc[u] = "fetched"
    /\ up_pc' = [up_pc EXCEPT ![u] = "idle"]
    /\ UNCHANGED <<code_rows, up_existing, up_code, up_calls, up_done, last_upsert, overlapped>>
    /\ UNCHANGED frameCode

CodeNext ==
    \E u \in Upserters :
        \/ UpsertFetch(u)
        \/ UpsertFetchFails(u)
        \/ UpsertWrite(u)
        \/ UpsertWriteFails(u)

-----------------------------------------------------------------------------
(* DeterministicCodeTool._run, _generate_code, _execute_code *)

\* a query argument: a text (a sequence of symbols, " " is white space) or a
\* value that is not a string
QuerySamples ==
    {[is_str |-> TRUE, text |-> <<"SELECT", "rest">>],
     [is_str |-> TRUE, text |-> <<" ", "select", "rest">>],
     [is_str |-> TRUE, text |-> <<"UPDATE", "rest">>],
     [is_str |-> TRUE, text |-> <<>>],
     [is_str |-> FALSE, text |-> <<>>]}

NoQuery == [is_str |-> TRUE, text |-> <<>>]

\* the recorded Event rows of a task, without their timestamps;
\* tool "None": data holds no tool_name
EventRowSamples ==
    {[event_type |-> "tool_usage_finished", crew_type |-> "action", has_data |-> TRUE,
      tool |-> "send_mail", query |-> NoQuery],
     [event_type |-> "tool_usage_finished", crew_type |-> "action", has_data |-> TRUE,
      tool |-> "mem0", query |-> NoQuery],
     [event_type |-> "tool_usage_finished", crew_type |-> "action", has_data |-> TRUE,
      tool |-> "dmn_rule", query |-> NoQuery],
     [event_type |-> "tool_usage_finished", crew_type |-> "action", has_data |-> TRUE,
      tool |-> "None", query |-> NoQuery],
     [event_type |-> "tool_usage_finished", crew_type |-> "action", has_data |-> FALSE,
      tool |-> "None", query |-> NoQuery],
     [event_type |-> "tool_usage_started", crew_type |-> "action", has_data |-> TRUE,
      tool |-> "send_mail", query |-> NoQuery],
     [event_type |-> "tool_usage_finished", crew_type |-> "planning", has_data |-> TRUE,
      tool |-> "send_mail", query |-> NoQuery]}
    \cup
    {[event_type |-> "tool_usage_finished", crew_type |-> "action", has_data |-> TRUE,
      tool |-> "execute_sql", query |-> q] : q \in QuerySamples}

\* the rows with their timestamps: every row has its own
Timestamped(n) ==
    {[i \in 1 .. n |-> [ts |-> p[i], row |-> r[i]]] :
        p \in {q \in [1 .. n -> 1 .. n] : \A i, j \in 1 .. n : q[i] = q[j] => i = j},
        r \in [1 .. n -> EventRowSamples]}

\* the events table for the task, in the order the rows are stored
EventTables == UNION {Timestamped(n) : n \in 0 .. MaxEvents}

\* fetch_events_by_todo_id: .order("timestamp", desc=False)
FetchEventsByTodoId(table) ==
    [i \in DOMAIN table |->
        CHOOSE e \in {table[j] : j \in DOMAIN table} :
            Cardinality({j \in DOMAIN table : table[j].ts < e.ts}) = i - 1]

\* str.upper() of one symbol
UpperSym(c) ==
    CASE c = "select" -> "SELECT"
      [] c = "rest" -> "REST"
      [] OTHER -> c

\* a filter that keeps every execute_sql call
IsSelectQueryNever(q) == FALSE

\* isinstance(query, str) and query.strip().upper().startswith("SELECT")
IsSelectQuery(q) ==
    /\ q.is_str
    /\ Strip(q.text) # <<>>
    /\ UpperSym(Head(Strip(q.text))) = "SELECT"

\* the tools _event_row_to_step drops
InternalTools == {"mem0", "memento", "human_asked", "dmn_rule"}

\* _event_row_to_step(row) is not None
EventRowIsStep(row) ==
    /\ row.event_type = "tool_usage_finished"
    /\ row.crew_type = "action"
    /\ row.has_data
    /\ row.tool # "None"
    /\ row.tool \notin InternalTools
    /\ ~(row.tool = "execute_sql" /\ IsSelectQuery(row.query))

\* steps = [s for r in rows if (s := _event_row_to_step(r))]
StepsOf(rows_) == SelectSeq(rows_, LAMBDA e : EventRowIsStep(e.row))

\* the values fetch_workitem_by_id can return (present = FALSE: None)
Workitems ==
    [fetched : {TRUE}, present : {TRUE}, proc_def_id : BOOLEAN, activity_id : BOOLEAN,
     rework_count : {0, 1}, has_query : BOOLEAN]
    \cup {[fetched |-> TRUE, present |-> FALSE, proc_def_id |-> FALSE, activity_id |-> FALSE,
           rework_count |-> 0, has_query |-> FALSE]}

\* workitem before fetch_workitem_by_id has returned
NoWorkitem ==
    [fetched |-> FALSE, present |-> FALSE, proc_def_id |-> FALSE, activity_id |-> FALSE,
     rework_count |-> 0, has_query |-> FALSE]

\* a check that asks for proc_def_id only
IdsMissingProcOnly(w) == ~w.proc_def_id

\* if not proc_def_id or not activity_id
IdsMissing(w) == ~w.proc_def_id \/ ~w.activity_id

\* use_compensation = workitem.get("rework_count", 0) > 0
UseCompensation(w) == w.rework_count > 0

\* the saved code rows fetch_mcp_python_code can return (present = FALSE: None)
SavedCodes ==
    {[present |-> FALSE, compensation |-> FALSE],
     [present |-> TRUE, compensation |-> FALSE],
     [present |-> TRUE, compensation |-> TRUE]}

DcOut(kind, val) == [kind |-> kind, val |-> val, results |-> <<>>, form_result |-> "none"]

\* {"error": "todolist not found for todo_id=..."}
DcNotFound == DcOut("returned", "error: todolist not found")

\* {"error": "proc_def_id/activity_id missing in todolist"}
DcIdsMissing == DcOut("returned", "error: proc_def_id/activity_id missing")

\* "run failed: ..."
DcRunFailed == DcOut("returned", "run failed")

\* {"ok": true, "message": "code generated and saved", "parameters": ...}
DcGenerated == DcOut("returned", "code generated and saved")

\* "no saved deterministic code."
DcNoSavedCode == DcOut("returned", "no saved deterministic code")

\* the text _execute_code returns for a run: a str holding the run's results
\* and form result
ExecText(run) == [type |-> "str", results |-> <<run>>, form_result |-> run]

\* results = compensation_result.get("results", []) + exec_result.get("results", []);
\* form_result = exec_result.get("form_result"): a str has no get, AttributeError
\* is raised and _run returns "run failed: ..."
Combine(comp, exec) ==
    IF comp.type = "dict" /\ exec.type = "dict"
      THEN [kind |-> "returned", val |-> "ok", results |-> comp.results \o exec.results,
            form_result |-> exec.form_result]
      ELSE DcRunFailed

DcIdle ==
    /\ dc_pc = "idle"
    /\ dc_action = "execute"
    /\ dc_workitem = NoWorkitem
    /\ dc_events = <<>>
    /\ dc_fetches = 0
    /\ dc_steps = <<>>
    /\ dc_persisted = 0
    /\ dc_code = [present |-> FALSE, compensation |-> FALSE]
    /\ dc_runs = <<>>
    /\ dc_results = <<>>
    /\ dc_out = DcOut("none", "none")

\* the state at entry of _run(tenant_id, todo_id, action)
DcInit ==
    /\ dc_pc = "workitem"
    /\ dc_action \in {"generate", "execute"}
    /\ dc_workitem = NoWorkitem
    /\ dc_events = <<>>
    /\ dc_fetches = 0
    /\ dc_steps = <<>>
    /\ dc_persisted = 0
    /\ dc_code = [present |-> FALSE, compensation |-> FALSE]
    /\ dc_runs = <<>>
    /\ dc_results = <<>>
    /\ dc_out = DcOut("none", "none")

\* _run returns out
DcReturn(out) ==
    /\ dc_pc' = "done"
    /\ dc_out' = out

\* workitem = fetch_workitem_by_id(todo_id), and the two checks that follow
DcResolveWorkitem ==
    /\ dc_pc = "workitem"
    /\ \E w \in Workitems :
         /\ dc_workitem' = w
         /\ IF ~w.present THEN DcReturn(DcNotFound)
            ELSE IF IdsMissing(w) THEN DcReturn(DcIdsMissing)
            ELSE /\ dc_pc' = IF dc_action = "generate" THEN "gen_index" ELSE "exec_fetch"
                 /\ UNCHANGED dc_out
    /\ UNCHANGED <<dc_action, dc_events, dc_fetches, dc_steps, dc_persisted, dc_code, dc_runs,
                   dc_results>>
    /\ UNCHANGED frameDc

\* fetch_workitem_by_id raises (the client is not initialized, the backend
\* fails): except Exception: return "run failed: ..."
DcResolveWorkitemFails ==
    /\ dc_pc = "workitem"
    /\ DcReturn(DcRunFailed)
    /\ UNCHANGED <<dc_action, dc_workitem, dc_events, dc_fetches, dc_steps, dc_persisted,
                   dc_code, dc_runs, dc_results>>
    /\ UNCHANGED frameDc

\* _generate_code: mcp = fetch_tenant_mcp(tenant_id); _build_tool_index(mcp)
DcGenBuildIndex ==
    /\ dc_pc = "gen_index"
    /\ dc_pc' = "gen_events"
    /\ UNCHANGED <<dc_action, dc_workitem, dc_events, dc_fetches, dc_steps, dc_persisted,
                   dc_code, dc_runs, dc_results, dc_out>>
    /\ UNCHANGED frameDc

\* the tenant has no mcp configuration, or a server cannot be reached
DcGenBuildIndexFails ==
    /\ dc_pc = "gen_index"
    /\ DcReturn(DcRunFailed)
    /\ UNCHANGED <<dc_action, dc_workitem, dc_events, dc_fetches, dc_steps, dc_persisted,
                   dc_code, dc_runs, dc_results>>
    /\ UNCHANGED frameDc

\* rows = fetch_events_by_todo_id(todo_id); steps = [...]; if not steps: raise
DcGenFetchEvents ==
    /\ dc_pc = "gen_events"
    /\ \E table \in EventTables :
         /\ dc_events' = FetchEventsByTodoId(table)
         /\ dc_steps' = StepsOf(FetchEventsByTodoId(table))
         /\ IF StepsOf(FetchEventsByTodoId(table)) = <<>>
              THEN DcReturn(DcRunFailed)
              ELSE /\ dc_pc' = "gen_compile"
                   /\ UNCHANGED dc_out
    /\ dc_fetches' = dc_fetches + 1
    /\ UNCHANGED <<dc_action, dc_workitem, dc_persisted, dc_code, dc_runs, dc_results>>
    /\ UNCHANGED frameDc

\* binding_spec = ...; code = _compile_steps_to_code(...);
\* code_id = upsert_mcp_python_code(**code_dict); return code_dict
DcGenCompileAndSave ==
    /\ dc_pc = "gen_compile"
    /\ dc_persisted' = dc_persisted + 1
    /\ DcReturn(DcGenerated)
    /\ UNCHANGED <<dc_action, dc_workitem, dc_events, dc_fetches, dc_steps, dc_code, dc_runs,
                   dc_results>>
    /\ UNCHANGED frameDc

\* no server provides a step's tool (ValueError), or the upsert raises
DcGenCompileAndSaveFails ==
    /\ dc_pc = "gen_compile"
    /\ DcReturn(DcRunFailed)
    /\ UNCHANGED <<dc_action, dc_workitem, dc_events, dc_fetches, dc_steps, dc_persisted,
                   dc_code, dc_runs, dc_results>>
    /\ UNCHANGED frameDc

\* existed_code = fetch_mcp_python_code(...); if existed_code is None: return
DcExecFetchCode ==
    /\ dc_pc = "exec_fetch"
    /\ \E code \in SavedCodes :
         /\ dc_code' = code
         /\ IF ~code.present THEN DcReturn(DcNoSavedCode)
            ELSE /\ dc_pc' = IF UseCompensation(dc_workitem) THEN "exec_comp" ELSE "exec_code"
                 /\ UNCHANGED dc_out
    /\ UNCHANGED <<dc_action, dc_workitem, dc_events, dc_fetches, dc_steps, dc_persisted,
                   dc_runs, dc_results>>
    /\ UNCHANGED frameDc

\* fetch_mcp_python_code raises
DcExecFetchCodeFails ==
    /\ dc_pc = "exec_fetch"
    /\ DcReturn(DcRunFailed)
    /\ UNCHANGED <<dc_action, dc_workitem, dc_events, dc_fetches, dc_steps, dc_persisted,
                   dc_code, dc_runs, dc_results>>
    /\ UNCHANGED frameDc

\* the code _execute_code writes to the file is there, and the workitem has a query
CanRun(run) ==
    /\ dc_workitem.has_query
    /\ run = "compensation" => dc_code.compensation

\* _execute_code(..., use_compensation) runs the subprocess and returns its text
DcExecuteCode(run) ==
    /\ dc_pc = (IF run = "compensation" THEN "exec_comp" ELSE "exec_code")
    /\ CanRun(run)
    /\ dc_runs' = Append(dc_runs, run)
    /\ dc_results' = Append(dc_results, ExecText(run))
    /\ IF run = "compensation"
         THEN /\ dc_pc' = "exec_code"
              /\ UNCHANGED dc_out
         ELSE IF UseCompensation(dc_workitem)
           THEN /\ dc_pc' = "exec_combine"
                /\ UNCHANGED dc_out
           ELSE DcReturn([kind |-> "returned", val |-> "ok", results |-> <<run>>,
                          form_result |-> run])
    /\ UNCHANGED <<dc_action, dc_workitem, dc_events, dc_fetches, dc_steps, dc_persisted, dc_code>>
    /\ UNCHANGED frameDc

\* _execute_code raises before the subprocess is started: the workitem has no
\* query, the code to write is None, or a fetch or the parameter extraction fails
DcExecuteCodeFailsEarly(run) ==
    /\ dc_pc = (IF run = "compensation" THEN "exec_comp" ELSE "exec_code")
    /\ DcReturn(DcRunFailed)
    /\ UNCHANGED <<dc_action, dc_workitem, dc_events, dc_fetches, dc_steps, dc_persisted,
                   dc_code, dc_runs, dc_results>>
    /\ UNCHANGED frameDc

\* the subprocess ends with an error: RuntimeError(stderr)
DcExecuteCodeRunFails(run) ==
    /\ dc_pc = (IF run = "compensation" THEN "exec_comp" ELSE "exec_code")
    /\ CanRun(run)
    /\ dc_runs' = Append(dc_runs, run)
    /\ DcReturn(DcRunFailed)
    /\ UNCHANGED <<dc_action, dc_workitem, dc_events, dc_fetches, dc_steps, dc_persisted,
                   dc_code, dc_results>>
    /\ UNCHANGED frameDc

\* the results of the two runs are combined and returned
DcCombine ==
    /\ dc_pc = "exec_combine"
    /\ DcReturn(Combine(dc_results[1], dc_results[2]))
    /\ UNCHANGED <<dc_action, dc_workitem, dc_events, dc_fetches, dc_steps, dc_persisted,
                   dc_code, dc_runs, dc_results>>
    /\ UNCHANGED frameDc

DcNext ==
    \/ DcResolveWorkitem
    \/ DcResolveWorkitemFails
    \/ DcGenBuildIndex
    \/ DcGenBuildIndexFails
    \/ DcGenFetchEvents
    \/ DcGenCompileAndSave
    \/ DcGenCompileAndSaveFails
    \/ DcExecFetchCode
    \/ DcExecFetchCodeFails
    \/ \E run \in {"compensation", "code"} :
         \/ DcExecuteCode(run)
         \/ DcExecuteCodeFailsEarly(run)
         \/ DcExecuteCodeRunFails(run)
    \/ DcCombine

-----------------------------------------------------------------------------
(* The domain operations of the Persistence Gateway *)

DomainOps ==
    {"save_event_sync", "fetch_human_response_sync", "save_notification_sync",
     "fetch_tenant_mcp", "fetch_events_by_todo_id", "fetch_workitem_by_id",
     "fetch_mcp_python_code", "upsert_mcp_python_code", "fetch_form_by_id"}

\* the operation calls the backend through _retry_sync
UsesRetry(op) ==
    op \in {"save_event_sync", "fetch_human_response_sync", "save_notification_sync"}

\* the attempts an operation makes at a backend call: retries=3 through
\* _retry_sync, one when the client is called directly
AttemptsOf(op) == IF UsesRetry(op) THEN DefaultRetries ELSE 1

GwIdle ==
    /\ gw_pc = "idle"
    /\ gw_op = "none"
    /\ gw_failing = 0
    /\ gw_calls = 0
    /\ gw_slept = <<>>
    /\ gw_out = "none"

\* the state at entry of a domain operation, with a backend whose first
\* gw_failing calls fail
GwInit ==
    /\ gw_pc = "call"
    /\ gw_op \in DomainOps
    /\ gw_failing \in 0 .. MaxBackendFailures
    /\ gw_calls = 0
    /\ gw_slept = <<>>
    /\ gw_out = "none"

\* the backend call returns, and the operation with it
GwCallOk ==
    /\ gw_pc = "call"
    /\ gw_calls >= gw_failing
    /\ gw_calls' = gw_calls + 1
    /\ gw_pc' = "done"
    /\ gw_out' = "returned"
    /\ UNCHANGED <<gw_op, gw_failing, gw_slept>>
    /\ UNCHANGED frameGw

\* the backend call raises inside _retry_sync: the delay is slept
GwCallFailsRetried ==
    /\ gw_pc = "call"
    /\ gw_calls < gw_failing
    /\ UsesRetry(gw_op)
    /\ gw_calls' = gw_calls + 1
    /\ \E jitter \in Jitters : gw_slept' = Append(gw_slept, Backoff(gw_calls + 1, jitter))
    /\ IF gw_calls + 1 < AttemptsOf(gw_op)
         THEN UNCHANGED <<gw_pc, gw_out>>
         ELSE /\ gw_pc' = "done"
              /\ gw_out' = "raised"
    /\ UNCHANGED <<gw_op, gw_failing>>
    /\ UNCHANGED frameGw

\* the backend call raises in an operation that calls the client directly: the
\* error leaves the operation
GwCallFailsDirect ==
    /\ gw_pc = "call"
    /\ gw_calls < gw_failing
    /\ ~UsesRetry(gw_op)
    /\ gw_calls' = gw_calls + 1
    /\ gw_pc' = "done"
    /\ gw_out' = "raised"
    /\ UNCHANGED <<gw_op, gw_failing, gw_slept>>
    /\ UNCHANGED frameGw

GwNext ==
    \/ GwCallOk
    \/ GwCallFailsRetried
    \/ GwCallFailsDirect

-----------------------------------------------------------------------------
(* CrewAIEventLogger.on_event *)

\* event.type: "none" is a missing or non-string attribute, the last one a
\* kind the logger does not handle
EventTypeAttrs ==
    {"none", "task_started", "task_completed", "tool_usage_started",
     "tool_usage_finished", "agent_execution_started"}

EventClassNames ==
    {"TaskStartedEvent", "TaskCompletedEvent", "ToolUsageStartedEvent",
     "ToolUsageFinishedEvent", "FlowStartedEvent"}

\* the events received: task_id is event.task.id ("none" when absent), data_ok
\* is FALSE for an event whose payload makes _extract_data raise
LoggerEvents ==
    [type : EventTypeAttrs, cls : EventClassNames, task_id : {"none", "job1"},
     data_ok : BOOLEAN]

\* the values of task_id_var, proc_inst_id_var, crew_type_var
LoggerContexts ==
    [task_id : {None, "t1"}, proc_inst_id : {None, "p1"}, crew_type : {None, "action"}]

\* the kinds on_event handles, without the tool-usage ones
SupportedTypesTasksOnly == {"task_started", "task_completed"}

\* the kinds on_event handles
SupportedTypes ==
    {"task_started", "task_completed", "tool_usage_started", "tool_usage_finished"}

\* _extract_event_type: event.type when it is a string, else a match on the
\* lowered class name, else "unknown"
ExtractEventType(event) ==
    IF event.type # "none" THEN event.type
    ELSE CASE event.cls = "TaskStartedEvent" -> "task_started"
           [] event.cls = "TaskCompletedEvent" -> "task_completed"
           [] event.cls = "ToolUsageStartedEvent" -> "tool_usage_started"
           [] event.cls = "ToolUsageFinishedEvent" -> "tool_usage_finished"
           [] OTHER -> "unknown"

\* _extract_job_id
ExtractJobId(event) == IF event.task_id # "none" THEN event.task_id ELSE "unknown"

\* the row save_event_sync inserts
EventRow(job_id, ctx, event_type) ==
    [job_id |-> job_id, todo_id |-> ctx.task_id, proc_inst_id |-> ctx.proc_inst_id,
     crew_type |-> ctx.crew_type, event_type |-> event_type, status |-> None]

LoggerIdle ==
    /\ el_pc = "idle"
    /\ el_event = [type |-> "none", cls |-> "FlowStartedEvent", task_id |-> "none", data_ok |-> TRUE]
    /\ el_ctx = [task_id |-> None, proc_inst_id |-> None, crew_type |-> None]
    /\ el_in_loop = FALSE
    /\ el_type = "none"
    /\ el_attempts = 0
    /\ events_table = <<>>
    /\ el_out = "none"

\* on_event is entered with an event, in some ambient context
LoggerInit ==
    /\ el_pc = "classify"
    /\ el_event \in LoggerEvents
    /\ el_ctx \in LoggerContexts
    /\ el_in_loop \in BOOLEAN
    /\ el_type = "none"
    /\ el_attempts = 0
    /\ events_table = <<>>
    /\ el_out = "none"

\* the kind is one of the four handled: go on to the extraction
OnEventClassify ==
    /\ el_pc = "classify"
    /\ ExtractEventType(el_event) \in SupportedTypes
    /\ el_type' = ExtractEventType(el_event)
    /\ el_pc' = "extract"
    /\ UNCHANGED <<el_event, el_ctx, el_in_loop, el_attempts, events_table, el_out>>
    /\ UNCHANGED frameLogger

\* any other kind: return at once
OnEventIgnore ==
    /\ el_pc = "classify"
    /\ ExtractEventType(el_event) \notin SupportedTypes
    /\ el_type' = ExtractEventType(el_event)
    /\ el_pc' = "done"
    /\ el_out' = "returned"
    /\ UNCHANGED <<el_event, el_ctx, el_in_loop, el_attempts, events_table>>
    /\ UNCHANGED frameLogger

\* _extract_job_id and _extract_data return, the context variables are read
OnEventExtract ==
    /\ el_pc = "extract"
    /\ el_event.data_ok
    /\ el_pc' = "run"
    /\ UNCHANGED <<el_event, el_ctx, el_in_loop, el_type, el_attempts, events_table, el_out>>
    /\ UNCHANGED frameLogger

\* _extract_data raises: on_event re-raises
OnEventExtractFails ==
    /\ el_pc = "extract"
    /\ ~el_event.data_ok
    /\ el_pc' = "done"
    /\ el_out' = "raised"
    /\ UNCHANGED <<el_event, el_ctx, el_in_loop, el_type, el_attempts, events_table>>
    /\ UNCHANGED frameLogger

\* asyncio.run starts a loop for save_event
OnEventRun ==
    /\ el_pc = "run"
    /\ ~el_in_loop
    /\ el_pc' = "insert"
    /\ UNCHANGED <<el_event, el_ctx, el_in_loop, el_type, el_attempts, events_table, el_out>>
    /\ UNCHANGED frameLogger

\* asyncio.run raises RuntimeError in a thread whose loop is running
OnEventRunFails ==
    /\ el_pc = "run"
    /\ el_in_loop
    /\ el_pc' = "done"
    /\ el_out' = "raised"
    /\ UNCHANGED <<el_event, el_ctx, el_in_loop, el_type, el_attempts, events_table>>
    /\ UNCHANGED frameLogger

\* an insert call of save_event_sync succeeds: the row is stored, on_event returns
SaveEventInsertOk ==
    /\ el_pc = "insert"
    /\ el_attempts' = el_attempts + 1
    /\ events_table' = Append(events_table, EventRow(ExtractJobId(el_event), el_ctx, el_type))
    /\ el_pc' = "done"
    /\ el_out' = "returned"
    /\ UNCHANGED <<el_event, el_ctx, el_in_loop, el_type>>
    /\ UNCHANGED frameLogger

\* an insert call fails: _retry_sync tries again, or raises after the last attempt
SaveEventInsertFails ==
    /\ el_pc = "insert"
    /\ el_attempts' = el_attempts + 1
    /\ IF el_attempts + 1 < AttemptsOf("save_event_sync")
         THEN UNCHANGED <<el_pc, el_out>>
         ELSE /\ el_pc' = "done"
              /\ el_out' = "raised"
    /\ UNCHANGED <<el_event, el_ctx, el_in_loop, el_type, events_table>>
    /\ UNCHANGED frameLogger

LoggerNext ==
    \/ OnEventClassify
    \/ OnEventIgnore
    \/ OnEventExtract
    \/ OnEventExtractFails
    \/ OnEventRun
    \/ OnEventRunFails
    \/ SaveEventInsertOk
    \/ SaveEventInsertFails

-----------------------------------------------------------------------------
(* HumanQueryTool._run *)

\* a run that goes on to the next step when a step has failed
StepAfterSwallowed(step, ok) ==
    CASE step = "event" -> "notify"
      [] step = "notify" -> "wait"

\* the step that follows save_event_sync and the notification block: each
\* except clause re-raises
StepAfter(step, ok) ==
    CASE step = "event" /\ ok -> "notify"
      [] step = "notify" /\ ok -> "wait"
      [] OTHER -> "raised"

\* if self._user_ids_csv and self._user_ids_csv.strip()
NotifyWanted(csv) == ~csv.is_none /\ csv.text # <<>> /\ Strip(csv.text) # <<>>

RunIdle ==
    /\ run_pc = "idle"
    /\ run_csv = [is_none |-> TRUE, text |-> <<>>]
    /\ run_log = <<>>
    /\ run_attempts = 0
    /\ run_recipients = <<>>
    /\ run_polls = 0
    /\ run_errors = 0
    /\ run_failed = "none"
    /\ run_out = "none"

\* _run is entered: context snapshot, payload and job id are local values
RunInit ==
    /\ run_pc = "event"
    /\ run_csv \in CsvInputs
    /\ run_log = <<>>
    /\ run_attempts = 0
    /\ run_recipients = <<>>
    /\ run_polls = 0
    /\ run_errors = 0
    /\ run_failed = "none"
    /\ run_out = "none"

\* the move of _run from a step to the one that follows it
RunGoto(step, ok) ==
    /\ run_pc' = IF StepAfter(step, ok) = "raised" THEN "done" ELSE StepAfter(step, ok)
    /\ run_failed' = IF StepAfter(step, ok) = "raised" THEN step
                     ELSE IF ok THEN run_failed ELSE "swallowed"
    /\ run_out' = IF StepAfter(step, ok) = "raised" THEN "raised" ELSE run_out
    /\ run_attempts' = 0

\* save_event_sync(event_type="human_asked"): an insert call stores the row
RunSaveEventOk ==
    /\ run_pc = "event"
    /\ run_log' = Append(run_log, "event")
    /\ RunGoto("event", TRUE)
    /\ UNCHANGED <<run_csv, run_recipients, run_polls, run_errors>>
    /\ UNCHANGED frameRun

\* an insert call of save_event_sync fails: retried, or raised after the last one
RunSaveEventFails ==
    /\ run_pc = "event"
    /\ IF run_attempts + 1 < AttemptsOf("save_event_sync")
         THEN /\ run_attempts' = run_attempts + 1
              /\ UNCHANGED <<run_pc, run_failed, run_out>>
         ELSE RunGoto("event", FALSE)
    /\ UNCHANGED <<run_csv, run_log, run_recipients, run_polls, run_errors>>
    /\ UNCHANGED frameRun

\* the recipient CSV is None, empty or blank: save_notification_sync is not called
RunNotifySkip ==
    /\ run_pc = "notify"
    /\ ~NotifyWanted(run_csv)
    /\ RunGoto("notify", TRUE)
    /\ UNCHANGED <<run_csv, run_log, run_recipients, run_polls, run_errors>>
    /\ UNCHANGED frameRun

\* save_notification_sync finds no user id in the CSV and returns
RunNotifyNoRecipients ==
    /\ run_pc = "notify"
    /\ NotifyWanted(run_csv)
    /\ ParseUserIds(run_csv.text) = <<>>
    /\ RunGoto("notify", TRUE)
    /\ UNCHANGED <<run_csv, run_log, run_recipients, run_polls, run_errors>>
    /\ UNCHANGED frameRun

\* save_notification_sync: an insert call stores one row per user id
RunNotifyInsertOk ==
    /\ run_pc = "notify"
    /\ NotifyWanted(run_csv)
    /\ ParseUserIds(run_csv.text) # <<>>
    /\ run_log' = Append(run_log, "notification")
    /\ run_recipients' = ParseUserIds(run_csv.text)
    /\ RunGoto("notify", TRUE)
    /\ UNCHANGED <<run_csv, run_polls, run_errors>>
    /\ UNCHANGED frameRun

\* an insert call of save_notification_sync fails: retried, or raised after the last one
RunNotifyInsertFails ==
    /\ run_pc = "notify"
    /\ NotifyWanted(run_csv)
    /\ ParseUserIds(run_csv.text) # <<>>
    /\ IF run_attempts + 1 < AttemptsOf("save_notification_sync")
         THEN /\ run_attempts' = run_attempts + 1
              /\ UNCHANGED <<run_pc, run_failed, run_out>>
         ELSE RunGoto("notify", FALSE)
    /\ UNCHANGED <<run_csv, run_log, run_recipients, run_polls, run_errors>>
    /\ UNCHANGED frameRun

\* _wait_for_response polls and finds the answer: _run returns it
RunPollFound ==
    /\ run_pc = "wait"
    /\ run_polls < MaxRunPolls
    /\ run_log' = Append(run_log, "poll")
    /\ run_polls' = run_polls + 1
    /\ run_pc' = "done"
    /\ run_out' = "returned"
    /\ UNCHANGED <<run_csv, run_attempts, run_recipients, run_errors, run_failed>>
    /\ UNCHANGED frameRun

\* a poll finds nothing
RunPollEmpty ==
    /\ run_pc = "wait"
    /\ run_polls < MaxRunPolls
    /\ run_log' = Append(run_log, "poll")
    /\ run_polls' = run_polls + 1
    /\ run_errors' = 0
    /\ UNCHANGED <<run_pc, run_csv, run_attempts, run_recipients, run_failed, run_out>>
    /\ UNCHANGED frameRun

\* a poll raises: the wait goes on, or aborts at the third error in a row
RunPollError ==
    /\ run_pc = "wait"
    /\ run_polls < MaxRunPolls
    /\ run_log' = Append(run_log, "poll")
    /\ run_polls' = run_polls + 1
    /\ run_errors' = run_errors + 1
    /\ IF run_errors + 1 >= MaxPollErrors
         THEN /\ run_pc' = "done"
              /\ run_out' = "raised"
              /\ run_failed' = "wait"
         ELSE UNCHANGED <<run_pc, run_out, run_failed>>
    /\ UNCHANGED <<run_csv, run_attempts, run_recipients>>
    /\ UNCHANGED frameRun

\* the deadline passes after a poll: _run returns the no-answer text
RunWaitTimeout ==
    /\ run_pc = "wait"
    /\ run_polls >= 1
    /\ run_pc' = "done"
    /\ run_out' = "returned"
    /\ UNCHANGED <<run_csv, run_log, run_attempts, run_recipients, run_polls, run_errors, run_failed>>
    /\ UNCHANGED frameRun

RunNext ==
    \/ RunSaveEventOk
    \/ RunSaveEventFails
    \/ RunNotifySkip
    \/ RunNotifyNoRecipients
    \/ RunNotifyInsertOk
    \/ RunNotifyInsertFails
    \/ RunPollFound
    \/ RunPollEmpty
    \/ RunPollError
    \/ RunWaitTimeout

-----------------------------------------------------------------------------
(* SafeToolLoader._load_mcp_tool *)

\* the lists of server keys: TRUE for a key _get_mcp_config has a configuration for
RECURSIVE ServerLists(_)
ServerLists(n) ==
    IF n = 0 THEN {<<>>}
    ELSE {Append(l, c) : l \in ServerLists(n - 1), c \in BOOLEAN}

\* a failed attempt: the constructor of MCPServerAdapter raises, or
\* adapter.tools raises after the adapter was appended to the registry
LoadFailures == {"connect", "tools"}

\* a loader that goes on retrying after the second failure
RetryAfterFailureThrice(a) == a < MaxLoadRetries + 1

\* if attempt < max_retries: time.sleep(retry_delay)  else: raise
RetryAfterFailure(a) == a < MaxLoadRetries

McpNoOutcome == [kind |-> "none", tools |-> <<>>]

McpIdle ==
    /\ mcp_pc = "idle"
    /\ mcp_cfgs = <<>>
    /\ mcp_i = 0
    /\ mcp_attempt = 0
    /\ mcp_log = <<>>
    /\ mcp_registry = <<>>
    /\ mcp_tools = <<>>
    /\ mcp_out = McpNoOutcome

\* create_tools_from_names reaches the loop over tool_names; the registry is empty
McpInit ==
    /\ mcp_pc = "load"
    /\ mcp_cfgs \in UNION {ServerLists(n) : n \in 1 .. MaxServers}
    /\ mcp_i = 1
    /\ mcp_attempt = 1
    /\ mcp_log = <<>>
    /\ mcp_registry = <<>>
    /\ mcp_tools = <<>>
    /\ mcp_out = McpNoOutcome

\* server_cfg is missing: return []
McpNoConfig ==
    /\ mcp_pc = "load"
    /\ mcp_i <= Len(mcp_cfgs)
    /\ ~mcp_cfgs[mcp_i]
    /\ mcp_i' = mcp_i + 1
    /\ UNCHANGED <<mcp_pc, mcp_cfgs, mcp_attempt, mcp_log, mcp_registry, mcp_tools, mcp_out>>
    /\ UNCHANGED frameMcp

\* adapter = MCPServerAdapter(params); adapters.append(adapter); return adapter.tools
McpAttemptOk ==
    /\ mcp_pc = "load"
    /\ mcp_i <= Len(mcp_cfgs)
    /\ mcp_cfgs[mcp_i]
    /\ mcp_log' = Append(mcp_log, [step |-> "attempt", i |-> mcp_i, n |-> mcp_attempt, ok |-> TRUE])
    /\ mcp_registry' = Append(mcp_registry, [i |-> mcp_i, n |-> mcp_attempt])
    /\ mcp_tools' = Append(mcp_tools, [i |-> mcp_i, n |-> mcp_attempt])
    /\ mcp_i' = mcp_i + 1
    /\ mcp_attempt' = 1
    /\ UNCHANGED <<mcp_pc, mcp_cfgs, mcp_out>>
    /\ UNCHANGED frameMcp

\* the attempt raises: sleep and try again, or re-raise after the last attempt,
\* which ends create_tools_from_names too
McpAttemptFails ==
    /\ mcp_pc = "load"
    /\ mcp_i <= Len(mcp_cfgs)
    /\ mcp_cfgs[mcp_i]
    /\ mcp_log' = Append(mcp_log, [step |-> "attempt", i |-> mcp_i, n |-> mcp_attempt, ok |-> FALSE])
    /\ \E failure \in LoadFailures :
         mcp_registry' = IF failure = "tools"
                           THEN Append(mcp_registry, [i |-> mcp_i, n |-> mcp_attempt])
                           ELSE mcp_registry
    /\ IF RetryAfterFailure(mcp_attempt)
         THEN /\ mcp_pc' = "sleep"
              /\ UNCHANGED mcp_out
         ELSE /\ mcp_pc' = "done"
              /\ mcp_out' = [kind |-> "raised", tools |-> <<>>]
    /\ UNCHANGED <<mcp_cfgs, mcp_i, mcp_attempt, mcp_tools>>
    /\ UNCHANGED frameMcp

\* time.sleep(retry_delay), then the next attempt
McpRetrySleep ==
    /\ mcp_pc = "sleep"
    /\ mcp_log' = Append(mcp_log, [step |-> "sleep", i |-> mcp_i, n |-> LoadRetryDelay, ok |-> TRUE])
    /\ mcp_attempt' = mcp_attempt + 1
    /\ mcp_pc' = "load"
    /\ UNCHANGED <<mcp_cfgs, mcp_i, mcp_registry, mcp_tools, mcp_out>>
    /\ UNCHANGED frameMcp

\* return tools
McpReturn ==
    /\ mcp_pc = "load"
    /\ mcp_i > Len(mcp_cfgs)
    /\ mcp_pc' = "done"
    /\ mcp_out' = [kind |-> "returned", tools |-> mcp_tools]
    /\ UNCHANGED <<mcp_cfgs, mcp_i, mcp_attempt, mcp_log, mcp_registry, mcp_tools>>
    /\ UNCHANGED frameMcp

McpNext ==
    \/ McpNoConfig
    \/ McpAttemptOk
    \/ McpAttemptFails
    \/ McpRetrySleep
    \/ McpReturn

-----------------------------------------------------------------------------
(* SafeToolLoader.warmup_server *)

RECURSIVE ArgLists(_)
ArgLists(n) ==
    IF n = 0 THEN {<<>>}
    ELSE {Append(l, a) : l \in ArgLists(n - 1), a \in {"-y", "pkg"}}

\* what _get_mcp_config returns: {} or a configuration with a command and args
WarmConfigs ==
    {[present |-> FALSE, command |-> "none", args |-> <<>>]}
        \cup [present : {TRUE}, command : {"npx", "uvx"},
              args : UNION {ArgLists(n) : n \in 0 .. MaxArgs}]

\* if not cfg or cfg.get("command") != "npx": return
WarmSkipsCommand(cfg) == ~cfg.present \/ cfg.command # "npx"

\* if not (args and args[0] == "-y"): return
WarmSkipsArgs(args) == ~(args # <<>> /\ args[1] = "-y")

\* pkg = args[1]: the second element, or IndexError
PkgOf(args) == IF Len(args) >= 2 THEN args[2] ELSE "IndexError"

WarmIdle ==
    /\ wu_pc = "idle"
    /\ wu_cfg = [present |-> FALSE, command |-> "none", args |-> <<>>]
    /\ wu_runs = <<>>
    /\ wu_out = "none"

\* cfg = self._get_mcp_config(server_key)
WarmInit ==
    /\ wu_pc = "command"
    /\ wu_cfg \in WarmConfigs
    /\ wu_runs = <<>>
    /\ wu_out = "none"

\* no configuration, or a command other than npx: return
WarmSkipCommand ==
    /\ wu_pc = "command"
    /\ WarmSkipsCommand(wu_cfg)
    /\ wu_pc' = "done"
    /\ wu_out' = "returned"
    /\ UNCHANGED <<wu_cfg, wu_runs>>
    /\ UNCHANGED frameWarm

\* npx = self._find_npx_command(), which always gives a path
WarmFindNpx ==
    /\ wu_pc = "command"
    /\ ~WarmSkipsCommand(wu_cfg)
    /\ wu_pc' = "args"
    /\ UNCHANGED <<wu_cfg, wu_runs, wu_out>>
    /\ UNCHANGED frameWarm

\* args is empty or does not start with -y: return
WarmSkipArgs ==
    /\ wu_pc = "args"
    /\ WarmSkipsArgs(wu_cfg.args)
    /\ wu_pc' = "done"
    /\ wu_out' = "returned"
    /\ UNCHANGED <<wu_cfg, wu_runs>>
    /\ UNCHANGED frameWarm

\* pkg = args[1], outside every try block
WarmTakePkg ==
    /\ wu_pc = "args"
    /\ ~WarmSkipsArgs(wu_cfg.args)
    /\ IF PkgOf(wu_cfg.args) = "IndexError"
         THEN /\ wu_pc' = "done"
              /\ wu_out' = "IndexError"
         ELSE /\ wu_pc' = "fast"
              /\ UNCHANGED wu_out
    /\ UNCHANGED <<wu_cfg, wu_runs>>
    /\ UNCHANGED frameWarm

\* subprocess.run(..., timeout=10) returns: return
WarmFastOk ==
    /\ wu_pc = "fast"
    /\ wu_runs' = Append(wu_runs, [timeout |-> 10, ended |-> "ok"])
    /\ wu_pc' = "done"
    /\ wu_out' = "returned"
    /\ UNCHANGED wu_cfg
    /\ UNCHANGED frameWarm

\* the fast run times out or fails: pass
WarmFastFails ==
    /\ wu_pc = "fast"
    /\ \E ended \in {"TimeoutExpired", "error"} :
         wu_runs' = Append(wu_runs, [timeout |-> 10, ended |-> ended])
    /\ wu_pc' = "slow"
    /\ UNCHANGED <<wu_cfg, wu_out>>
    /\ UNCHANGED frameWarm

\* subprocess.run(..., timeout=60) returns, times out or fails: the method ends
WarmSlow ==
    /\ wu_pc = "slow"
    /\ \E ended \in {"ok", "TimeoutExpired", "error"} :
         wu_runs' = Append(wu_runs, [timeout |-> 60, ended |-> ended])
    /\ wu_pc' = "done"
    /\ wu_out' = "returned"
    /\ UNCHANGED wu_cfg
    /\ UNCHANGED frameWarm

WarmNext ==
    \/ WarmSkipCommand
    \/ WarmFindNpx
    \/ WarmSkipArgs
    \/ WarmTakePkg
    \/ WarmFastOk
    \/ WarmFastFails
    \/ WarmSlow

-----------------------------------------------------------------------------
(* _execute_code: the temporary file *)

\* code_dict: None, or a saved record whose code and compensation bodies are
\* texts or missing
CodeDicts ==
    {[given |-> FALSE, code |-> "None", compensation |-> "None"]}
        \cup [given : {TRUE}, code : {"None", "text"}, compensation : {"None", "text"}]

\* activity_code = code_dict.get("compensation") if use_compensation else code_dict.get("code")
ActivityCode(code_dict, use_compensation) ==
    IF use_compensation THEN code_dict.compensation ELSE code_dict.code

\* f.write(activity_code) raises TypeError for None
WriteRaises(activity_code) == activity_code = "None"

ExecIdle ==
    /\ ex_pc = "idle"
    /\ ex_code_dict = [given |-> FALSE, code |-> "None", compensation |-> "None"]
    /\ ex_use_comp = FALSE
    /\ ex_activity = "None"
    /\ ex_temp_exists = FALSE
    /\ ex_created = FALSE
    /\ ex_out = "none"

\* the state at entry of _execute_code(tenant_id, todo_id, code_dict, use_compensation)
ExecInit ==
    /\ ex_pc = "select"
    /\ ex_code_dict \in CodeDicts
    /\ ex_use_comp \in BOOLEAN
    /\ ex_activity = "None"
    /\ ex_temp_exists = FALSE
    /\ ex_created = FALSE
    /\ ex_out = "none"

\* if code_dict is None: raise RuntimeError
ExecNoCodeDict ==
    /\ ex_pc = "select"
    /\ ~ex_code_dict.given
    /\ ex_pc' = "done"
    /\ ex_out' = "raised: no code_dict"
    /\ UNCHANGED <<ex_code_dict, ex_use_comp, ex_activity, ex_temp_exists, ex_created>>
    /\ UNCHANGED frameExec

\* the body is selected
ExecSelect ==
    /\ ex_pc = "select"
    /\ ex_code_dict.given
    /\ ex_activity' = ActivityCode(ex_code_dict, ex_use_comp)
    /\ ex_pc' = "workitem"
    /\ UNCHANGED <<ex_code_dict, ex_use_comp, ex_temp_exists, ex_created, ex_out>>
    /\ UNCHANGED frameExec

\* workitem = fetch_workitem_by_id(todo_id) gives a Workitem with a query
ExecFetchWorkitem ==
    /\ ex_pc = "workitem"
    /\ ex_pc' = "params"
    /\ UNCHANGED <<ex_code_dict, ex_use_comp, ex_activity, ex_temp_exists, ex_created, ex_out>>
    /\ UNCHANGED frameExec

\* the fetch raises, or the Workitem is absent or has no query: RuntimeError
ExecFetchWorkitemFails ==
    /\ ex_pc = "workitem"
    /\ ex_pc' = "done"
    /\ ex_out' \in {"raised: fetch_workitem_by_id", "raised: no workitem", "raised: no query"}
    /\ UNCHANGED <<ex_code_dict, ex_use_comp, ex_activity, ex_temp_exists, ex_created>>
    /\ UNCHANGED frameExec

\* create_llm and _extract_parameters_from_query return
ExecExtractParams ==
    /\ ex_pc = "params"
    /\ ex_pc' = "servers"
    /\ UNCHANGED <<ex_code_dict, ex_use_comp, ex_activity, ex_temp_exists, ex_created, ex_out>>
    /\ UNCHANGED frameExec

\* create_llm raises
ExecExtractParamsFails ==
    /\ ex_pc = "params"
    /\ ex_pc' = "done"
    /\ ex_out' = "raised: create_llm"
    /\ UNCHANGED <<ex_code_dict, ex_use_comp, ex_activity, ex_temp_exists, ex_created>>
    /\ UNCHANGED frameExec

\* mcp = fetch_tenant_mcp(tenant_id) and the selection of the enabled servers
ExecFetchServers ==
    /\ ex_pc = "servers"
    /\ ex_pc' = "create"
    /\ UNCHANGED <<ex_code_dict, ex_use_comp, ex_activity, ex_temp_exists, ex_created, ex_out>>
    /\ UNCHANGED frameExec

\* fetch_tenant_mcp raises
ExecFetchServersFails ==
    /\ ex_pc = "servers"
    /\ ex_pc' = "done"
    /\ ex_out' = "raised: fetch_tenant_mcp"
    /\ UNCHANGED <<ex_code_dict, ex_use_comp, ex_activity, ex_temp_exists, ex_created>>
    /\ UNCHANGED frameExec

\* with tempfile.NamedTemporaryFile(..., delete=False) as f: temp_file = f.name
ExecCreateTemp ==
    /\ ex_pc = "create"
    /\ ex_temp_exists' = TRUE
    /\ ex_created' = TRUE
    /\ ex_pc' = "write"
    /\ UNCHANGED <<ex_code_dict, ex_use_comp, ex_activity, ex_out>>
    /\ UNCHANGED frameExec

\* f.write(activity_code) succeeds and the with block closes the file
ExecWrite ==
    /\ ex_pc = "write"
    /\ ~WriteRaises(ex_activity)
    /\ ex_pc' = "run"
    /\ UNCHANGED <<ex_code_dict, ex_use_comp, ex_activity, ex_temp_exists, ex_created, ex_out>>
    /\ UNCHANGED frameExec

\* f.write(activity_code) raises: the with block closes the file, which was
\* created with delete=False, and the error leaves _execute_code before the try
ExecWriteFails ==
    /\ ex_pc = "write"
    /\ WriteRaises(ex_activity)
    /\ ex_pc' = "done"
    /\ ex_out' = "raised: TypeError"
    /\ UNCHANGED <<ex_code_dict, ex_use_comp, ex_activity, ex_temp_exists, ex_created>>
    /\ UNCHANGED frameExec

\* try: subprocess.run(...) and the reading of its output;
\* finally: if os.path.exists(temp_file): os.remove(temp_file)
ExecRun ==
    /\ ex_pc = "run"
    /\ ex_out' \in {"returned", "raised: stderr", "raised: subprocess.run"}
    /\ ex_temp_exists' = FALSE
    /\ ex_pc' = "done"
    /\ UNCHANGED <<ex_code_dict, ex_use_comp, ex_activity, ex_created>>
    /\ UNCHANGED frameExec

ExecNext ==
    \/ ExecNoCodeDict
    \/ ExecSelect
    \/ ExecFetchWorkitem
    \/ ExecFetchWorkitemFails
    \/ ExecExtractParams
    \/ ExecExtractParamsFails
    \/ ExecFetchServers
    \/ ExecFetchServersFails
    \/ ExecCreateTemp
    \/ ExecWrite
    \/ ExecWriteFails
    \/ ExecRun

-----------------------------------------------------------------------------
(* DMNRuleTool.__init__ and _load_user_rules *)

RECURSIVE RuleLists(_)
RuleLists(n) ==
    IF n = 0 THEN {<<>>}
    ELSE {Append(l, r) : l \in RuleLists(n - 1), r \in {"discount", "approval"}}

\* response.data: None, or the rows found
RuleResponses ==
    {[is_none |-> TRUE, rows |-> <<>>]}
        \cup {[is_none |-> FALSE, rows |-> l] : l \in UNION {RuleLists(n) : n \in 0 .. MaxRules}}

\* self._user_rules = response.data if response.data else []
RulesOf(data) == IF data.is_none \/ data.rows = <<>> THEN <<>> ELSE data.rows

\* _run: the answer to a query
DmnAnswer(query, rules) ==
    IF query = "" THEN "enter a query"
    ELSE IF rules = <<>> THEN "no rules"
    ELSE "analysis"

DmnIdle ==
    /\ dmn_pc = "idle"
    /\ dmn_user_id = "None"
    /\ dmn_load = "none"
    /\ dmn_rules = <<>>
    /\ dmn_answers = <<>>
    /\ dmn_out = "none"

\* self._tenant_id = tenant_id; self._user_id = user_id; self._user_rules = []
DmnInit ==
    /\ dmn_pc = "initialize_db"
    /\ dmn_user_id \in {"None", "", "u1", "u2"}
    /\ dmn_load = "none"
    /\ dmn_rules = <<>>
    /\ dmn_answers = <<>>
    /\ dmn_out = "none"

\* initialize_db() returns
DmnInitializeDb ==
    /\ dmn_pc = "initialize_db"
    /\ dmn_pc' = "load"
    /\ UNCHANGED <<dmn_user_id, dmn_load, dmn_rules, dmn_answers, dmn_out>>
    /\ UNCHANGED frameDmn

\* initialize_db() raises: __init__ logs and re-raises
DmnInitializeDbFails ==
    /\ dmn_pc = "initialize_db"
    /\ dmn_pc' = "failed"
    /\ dmn_out' = "raised"
    /\ UNCHANGED <<dmn_user_id, dmn_load, dmn_rules, dmn_answers>>
    /\ UNCHANGED frameDmn

\* if self._user_id: is false
DmnSkipLoad ==
    /\ dmn_pc = "load"
    /\ dmn_user_id \in {"None", ""}
    /\ dmn_pc' = "built"
    /\ dmn_out' = "constructed"
    /\ UNCHANGED <<dmn_user_id, dmn_load, dmn_rules, dmn_answers>>
    /\ UNCHANGED frameDmn

\* _load_user_rules: the query returns
DmnLoadUserRules ==
    /\ dmn_pc = "load"
    /\ dmn_user_id \notin {"None", ""}
    /\ \E data \in RuleResponses : dmn_rules' = RulesOf(data)
    /\ dmn_load' = "ok"
    /\ dmn_pc' = "built"
    /\ dmn_out' = "constructed"
    /\ UNCHANGED <<dmn_user_id, dmn_answers>>
    /\ UNCHANGED frameDmn

\* _load_user_rules: get_db_client or the query raises;
\* except Exception: logger.error(...); self._user_rules = []
DmnLoadUserRulesFails ==
    /\ dmn_pc = "load"
    /\ dmn_user_id \notin {"None", ""}
    /\ dmn_rules' = <<>>
    /\ dmn_load' = "failed"
    /\ dmn_pc' = "built"
    /\ dmn_out' = "constructed"
    /\ UNCHANGED <<dmn_user_id, dmn_answers>>
    /\ UNCHANGED frameDmn

\* _run(query) on the constructed tool
DmnRun ==
    /\ dmn_pc = "built"
    /\ Len(dmn_answers) < MaxDmnQueries
    /\ \E query \in {"", "q"} : dmn_answers' = Append(dmn_answers, DmnAnswer(query, dmn_rules))
    /\ UNCHANGED <<dmn_pc, dmn_user_id, dmn_load, dmn_rules, dmn_out>>
    /\ UNCHANGED frameDmn

DmnNext ==
    \/ DmnInitializeDb
    \/ DmnInitializeDbFails
    \/ DmnSkipLoad
    \/ DmnLoadUserRules
    \/ DmnLoadUserRulesFails
    \/ DmnRun

-----------------------------------------------------------------------------
(* The sync-over-async bridge of A2AAgentTool._run and _load_a2a_tools *)

BridgeCallers == {"A2AAgentTool._run", "SafeToolLoader._load_a2a_tools"}

\* loop = asyncio.get_running_loop(): the loop running in the calling thread,
\* None when there is none;  if loop and loop.is_running()
UsesCallerLoop(in_loop) == in_loop

\* an event loop makes progress only while its thread is executing it
LoopCanRun(loop, thread) ==
    \/ loop = "fresh" /\ thread = "drives_loop"
    \/ loop = "caller" /\ thread # "blocked"

\* _load_a2a_tools catches what its bridge raises; _run lets it pass
BridgeOutcome(caller, coro) ==
    IF coro = "done" \/ caller = "SafeToolLoader._load_a2a_tools" THEN "returned" ELSE "raised"

BridgeIdle ==
    /\ br_pc = "idle"
    /\ br_caller = "none"
    /\ br_in_loop = FALSE
    /\ br_loop = "none"
    /\ br_thread = "sync"
    /\ br_steps = [made |-> 0, total |-> 0]
    /\ br_coro = "new"
    /\ br_out = "none"

\* the synchronous entry is called, on a thread with or without a running loop
BridgeInit ==
    /\ br_pc = "get_loop"
    /\ br_caller \in BridgeCallers
    /\ br_in_loop \in BOOLEAN
    /\ br_loop = "none"
    /\ br_thread = "sync"
    /\ br_steps \in [made : {0}, total : 1 .. MaxCoroSteps]
    /\ br_coro = "new"
    /\ br_out = "none"

\* asyncio.run_coroutine_threadsafe(coro, loop).result(): the coroutine is
\* scheduled on the caller's loop and the calling thread blocks for the result
BridgeSubmit ==
    /\ br_pc = "get_loop"
    /\ UsesCallerLoop(br_in_loop)
    /\ br_loop' = "caller"
    /\ br_coro' = "scheduled"
    /\ br_thread' = "blocked"
    /\ br_pc' = "wait"
    /\ UNCHANGED <<br_caller, br_in_loop, br_steps, br_out>>
    /\ UNCHANGED frameBridge

\* asyncio.run(coro): a fresh loop, driven by the calling thread
BridgeRunFresh ==
    /\ br_pc = "get_loop"
    /\ ~UsesCallerLoop(br_in_loop)
    /\ br_loop' = "fresh"
    /\ br_coro' = "scheduled"
    /\ br_thread' = "drives_loop"
    /\ br_pc' = "wait"
    /\ UNCHANGED <<br_caller, br_in_loop, br_steps, br_out>>
    /\ UNCHANGED frameBridge

\* the loop runs the coroutine up to its next await, or to its end
CoroStep ==
    /\ br_pc = "wait"
    /\ br_coro = "scheduled"
    /\ LoopCanRun(br_loop, br_thread)
    /\ br_steps' = [br_steps EXCEPT !.made = @ + 1]
    /\ br_coro' = IF br_steps.made + 1 = br_steps.total THEN "done" ELSE "scheduled"
    /\ UNCHANGED <<br_pc, br_caller, br_in_loop, br_loop, br_thread, br_out>>
    /\ UNCHANGED frameBridge

\* the coroutine raises
CoroFails ==
    /\ br_pc = "wait"
    /\ br_coro = "scheduled"
    /\ LoopCanRun(br_loop, br_thread)
    /\ br_coro' = "failed"
    /\ UNCHANGED <<br_pc, br_caller, br_in_loop, br_loop, br_thread, br_steps, br_out>>
    /\ UNCHANGED frameBridge

\* the result, or the exception, of the finished coroutine reaches the caller
BridgeResult ==
    /\ br_pc = "wait"
    /\ br_coro \in {"done", "failed"}
    /\ br_thread' = "sync"
    /\ br_pc' = "done"
    /\ br_out' = BridgeOutcome(br_caller, br_coro)
    /\ UNCHANGED <<br_caller, br_in_loop, br_loop, br_steps, br_coro>>
    /\ UNCHANGED frameBridge

BridgeNext ==
    \/ BridgeSubmit
    \/ BridgeRunFresh
    \/ CoroStep
    \/ CoroFails
    \/ BridgeResult

-----------------------------------------------------------------------------
(* Specifications *)

InitRetry == RetryInit /\ NotifIdle /\ HumanIdle /\ CtxIdle /\ DbIdle /\ LoaderIdle /\ ShutdownIdle /\ A2AIdle /\ CodeIdle /\ DcIdle /\ GwIdle /\ LoggerIdle /\ RunIdle /\ McpIdle /\ WarmIdle /\ ExecIdle /\ DmnIdle /\ BridgeIdle

SpecRetry == InitRetry /\ [][RetryNext]_vars

InitNotif == RetryIdle /\ NotifInit /\ HumanIdle /\ CtxIdle /\ DbIdle /\ LoaderIdle /\ ShutdownIdle /\ A2AIdle /\ CodeIdle /\ DcIdle /\ GwIdle /\ LoggerIdle /\ RunIdle /\ McpIdle /\ WarmIdle /\ ExecIdle /\ DmnIdle /\ BridgeIdle

SpecNotif == InitNotif /\ [][NotifNext]_vars

InitHuman == RetryIdle /\ NotifIdle /\ HumanInit /\ CtxIdle /\ DbIdle /\ LoaderIdle /\ ShutdownIdle /\ A2AIdle /\ CodeIdle /\ DcIdle /\ GwIdle /\ LoggerIdle /\ RunIdle /\ McpIdle /\ WarmIdle /\ ExecIdle /\ DmnIdle /\ BridgeIdle

SpecHuman == InitHuman /\ [][HumanNext]_vars

InitCtx == RetryIdle /\ NotifIdle /\ HumanIdle /\ CtxInit /\ DbIdle /\ LoaderIdle /\ ShutdownIdle /\ A2AIdle /\ CodeIdle /\ DcIdle /\ GwIdle /\ LoggerIdle /\ RunIdle /\ McpIdle /\ WarmIdle /\ ExecIdle /\ DmnIdle /\ BridgeIdle

SpecCtx == InitCtx /\ [][CtxNext]_vars

InitDb == RetryIdle /\ NotifIdle /\ HumanIdle /\ CtxIdle /\ DbInit /\ LoaderIdle /\ ShutdownIdle /\ A2AIdle /\ CodeIdle /\ DcIdle /\ GwIdle /\ LoggerIdle /\ RunIdle /\ McpIdle /\ WarmIdle /\ ExecIdle /\ DmnIdle /\ BridgeIdle

SpecDb == InitDb /\ [][DbNext]_vars

InitLoader == RetryIdle /\ NotifIdle /\ HumanIdle /\ CtxIdle /\ DbIdle /\ LoaderInit /\ ShutdownIdle /\ A2AIdle /\ CodeIdle /\ DcIdle /\ GwIdle /\ LoggerIdle /\ RunIdle /\ McpIdle /\ WarmIdle /\ ExecIdle /\ DmnIdle /\ BridgeIdle

SpecLoader == InitLoader /\ [][LoaderNext]_vars

InitShutdown == RetryIdle /\ NotifIdle /\ HumanIdle /\ CtxIdle /\ DbIdle /\ LoaderIdle /\ ShutdownInit /\ A2AIdle /\ CodeIdle /\ DcIdle /\ GwIdle /\ LoggerIdle /\ RunIdle /\ McpIdle /\ WarmIdle /\ ExecIdle /\ DmnIdle /\ BridgeIdle

SpecShutdown == InitShutdown /\ [][ShutdownNext]_vars

InitA2A == RetryIdle /\ NotifIdle /\ HumanIdle /\ CtxIdle /\ DbIdle /\ LoaderIdle /\ ShutdownIdle /\ A2AInit /\ CodeIdle /\ DcIdle /\ GwIdle /\ LoggerIdle /\ RunIdle /\ McpIdle /\ WarmIdle /\ ExecIdle /\ DmnIdle /\ BridgeIdle

SpecA2A == InitA2A /\ [][A2ANext]_vars

InitCode == RetryIdle /\ NotifIdle /\ HumanIdle /\ CtxIdle /\ DbIdle /\ LoaderIdle /\ ShutdownIdle /\ A2AIdle /\ CodeInit /\ DcIdle /\ GwIdle /\ LoggerIdle /\ RunIdle /\ McpIdle /\ WarmIdle /\ ExecIdle /\ DmnIdle /\ BridgeIdle

SpecCode == InitCode /\ [][CodeNext]_vars

InitDc == RetryIdle /\ NotifIdle /\ HumanIdle /\ CtxIdle /\ DbIdle /\ LoaderIdle /\ ShutdownIdle /\ A2AIdle /\ CodeIdle /\ DcInit /\ GwIdle /\ LoggerIdle /\ RunIdle /\ McpIdle /\ WarmIdle /\ ExecIdle /\ DmnIdle /\ BridgeIdle

SpecDc == InitDc /\ [][DcNext]_vars

InitGw == RetryIdle /\ NotifIdle /\ HumanIdle /\ CtxIdle /\ DbIdle /\ LoaderIdle /\ ShutdownIdle /\ A2AIdle /\ CodeIdle /\ DcIdle /\ GwInit /\ LoggerIdle /\ RunIdle /\ McpIdle /\ WarmIdle /\ ExecIdle /\ DmnIdle /\ BridgeIdle

SpecGw == InitGw /\ [][GwNext]_vars

InitLogger == RetryIdle /\ NotifIdle /\ HumanIdle /\ CtxIdle /\ DbIdle /\ LoaderIdle /\ ShutdownIdle /\ A2AIdle /\ CodeIdle /\ DcIdle /\ GwIdle /\ LoggerInit /\ RunIdle /\ McpIdle /\ WarmIdle /\ ExecIdle /\ DmnIdle /\ BridgeIdle

SpecLogger == InitLogger /\ [][LoggerNext]_vars

InitRun == RetryIdle /\ NotifIdle /\ HumanIdle /\ CtxIdle /\ DbIdle /\ LoaderIdle /\ ShutdownIdle /\ A2AIdle /\ CodeIdle /\ DcIdle /\ GwIdle /\ LoggerIdle /\ RunInit /\ McpIdle /\ WarmIdle /\ ExecIdle /\ DmnIdle /\ BridgeIdle

SpecRun == InitRun /\ [][RunNext]_vars

InitMcp == RetryIdle /\ NotifIdle /\ HumanIdle /\ CtxIdle /\ DbIdle /\ LoaderIdle /\ ShutdownIdle /\ A2AIdle /\ CodeIdle /\ DcIdle /\ GwIdle /\ LoggerIdle /\ RunIdle /\ McpInit /\ WarmIdle /\ ExecIdle /\ DmnIdle /\ BridgeIdle

SpecMcp == InitMcp /\ [][McpNext]_vars

InitWarm == RetryIdle /\ NotifIdle /\ HumanIdle /\ CtxIdle /\ DbIdle /\ LoaderIdle /\ ShutdownIdle /\ A2AIdle /\ CodeIdle /\ DcIdle /\ GwIdle /\ LoggerIdle /\ RunIdle /\ McpIdle /\ WarmInit /\ ExecIdle /\ DmnIdle /\ BridgeIdle

SpecWarm == InitWarm /\ [][WarmNext]_vars

InitExec == RetryIdle /\ NotifIdle /\ HumanIdle /\ CtxIdle /\ DbIdle /\ LoaderIdle /\ ShutdownIdle /\ A2AIdle /\ CodeIdle /\ DcIdle /\ GwIdle /\ LoggerIdle /\ RunIdle /\ McpIdle /\ WarmIdle /\ ExecInit /\ DmnIdle /\ BridgeIdle

SpecExec == InitExec /\ [][ExecNext]_vars

InitDmn == RetryIdle /\ NotifIdle /\ HumanIdle /\ CtxIdle /\ DbIdle /\ LoaderIdle /\ ShutdownIdle /\ A2AIdle /\ CodeIdle /\ DcIdle /\ GwIdle /\ LoggerIdle /\ RunIdle /\ McpIdle /\ WarmIdle /\ ExecIdle /\ DmnInit /\ BridgeIdle

SpecDmn == InitDmn /\ [][DmnNext]_vars

InitBridge == RetryIdle /\ NotifIdle /\ HumanIdle /\ CtxIdle /\ DbIdle /\ LoaderIdle /\ ShutdownIdle /\ A2AIdle /\ CodeIdle /\ DcIdle /\ GwIdle /\ LoggerIdle /\ RunIdle /\ McpIdle /\ WarmIdle /\ ExecIdle /\ DmnIdle /\ BridgeInit

SpecBridge == InitBridge /\ [][BridgeNext]_vars

\* the loop and the calling thread take every step they can take
SpecBridgeFair == SpecBridge /\ WF_vars(BridgeNext)

\* the wait runs on its own thread of control: a step that can be taken is taken
SpecHumanFair == SpecHuman /\ WF_vars(WaitStep)

-----------------------------------------------------------------------------
(* Claims about _retry_sync *)

AllCallsFailed == \A i \in DOMAIN fn_hist : fn_hist[i] = "fail"

\* C1: with retries = 3 and no fallback, an operation that fails on every call
\* is called exactly 3 times and the wrapper raises the error of the 3rd call.
C1_AlwaysFailingRaisesLast ==
    (retry_pc = "done" /\ retries = DefaultRetries /\ ~has_fallback /\ AllCallsFailed)
        => /\ Len(fn_hist) = 3
           /\ retry_out = [kind |-> "raised", val |-> 3]

C1_Witness ==
    /\ retry_pc = "done"
    /\ retries = DefaultRetries
    /\ ~has_fallback
    /\ fn_hist = <<"fail", "fail", "fail">>
    /\ retry_out.kind = "raised"

\* C2: an operation that fails on its 1st and 2nd call and succeeds on its 3rd
\* makes the wrapper return the 3rd call's value after exactly 3 calls and
\* exactly 2 delays, the first in [0.8 s, 1.1 s) and the second in [1.6 s, 1.9 s).
C2_FailFailOkReturns ==
    (retry_pc = "done" /\ fn_hist = <<"fail", "fail", "ok">>)
        => /\ retry_out = [kind |-> "returned", val |-> 3]
           /\ Len(delays) = 2
           /\ delays[1] >= 8 /\ delays[1] < 8 + 3
           /\ delays[2] >= 16 /\ delays[2] < 16 + 3

C2_Witness ==
    /\ retry_pc = "done"
    /\ fn_hist = <<"fail", "fail", "ok">>
    /\ delays = <<10, 17>>

-----------------------------------------------------------------------------
(* Claims about save_notification_sync *)

\* The recipients of a CSV text, stated on the text itself: the maximal
\* comma-free stretches that hold a non-blank character, each cut to its first
\* and last non-blank character, in the order of their position.
IsSep(t, i) == i = 0 \/ i = Len(t) + 1 \/ t[i] = ","

Stretches(t) ==
    {pq \in (0 .. Len(t)) \X (1 .. (Len(t) + 1)) :
        /\ pq[1] < pq[2]
        /\ IsSep(t, pq[1]) /\ IsSep(t, pq[2])
        /\ \A k \in (pq[1] + 1) .. (pq[2] - 1) : t[k] # ","
        /\ \E k \in (pq[1] + 1) .. (pq[2] - 1) : t[k] # " "}

Trimmed(t, pq) ==
    LET solid == {k \in (pq[1] + 1) .. (pq[2] - 1) : t[k] # " "}
        lo == CHOOSE k \in solid : \A m \in solid : k <= m
        hi == CHOOSE k \in solid : \A m \in solid : k >= m
    IN SubSeq(t, lo, hi)

RECURSIVE InOrder(_, _)
InOrder(t, S) ==
    IF S = {} THEN <<>>
    ELSE LET first == CHOOSE pq \in S : \A o \in S : pq[1] <= o[1]
         IN <<Trimmed(t, first)>> \o InOrder(t, S \ {first})

Recipients(t) == InOrder(t, Stretches(t))

HasRecipient == ~user_ids_csv.is_none /\ Recipients(user_ids_csv.text) # <<>>

\* C3 as stated: a call that returns inserted exactly one row per distinct
\* recipient id, in parsed order, and a CSV without an id inserts nothing and
\* makes no backend call.
C3_OneRowPerDistinctId ==
    notif_pc = "done" =>
        IF HasRecipient
          THEN notif_out = "returned"
                   => notifications = Distinct(Recipients(user_ids_csv.text))
          ELSE notifications = <<>> /\ backend_calls = 0 /\ notif_out = "returned"

\* C3 amended: a call that returns inserted exactly one row per occurrence of a
\* trimmed non-blank id, repeated ids included, in parsed order; a call whose 3
\* insert attempts all failed raises and inserted nothing; a CSV that is None,
\* empty or holds no id inserts nothing and makes no backend call.
C3_OneRowPerIdOccurrence ==
    notif_pc = "done" =>
        IF HasRecipient
          THEN /\ notif_out = "returned" => notifications = Recipients(user_ids_csv.text)
               /\ notif_out = "raised" => notifications = <<>> /\ Len(fn_hist) = 3
          ELSE notifications = <<>> /\ backend_calls = 0 /\ notif_out = "returned"

C3_Witness ==
    /\ notif_pc = "done"
    /\ notif_out = "returned"
    /\ user_ids_csv.text = <<"a", ",", "a">>
    /\ notifications = <<<<"a">>, <<"a">>>>

-----------------------------------------------------------------------------
(* Claims about HumanQueryTool._wait_for_response *)

\* C4: when no human_response event ever appears and no poll raises, the wait
\* ends, at or after 180 seconds, by returning the sentinel and not by raising.
C4_NoResponseReturnsSentinel ==
    [](response = "none" /\ ~poll_raised)
        => <>(/\ hq_pc = "done"
              /\ hq_out = [kind |-> "returned", val |-> "sentinel"]
              /\ clock >= 180)

C4_Witness ==
    /\ hq_pc = "done"
    /\ response = "none"
    /\ ~poll_raised
    /\ hq_out = [kind |-> "returned", val |-> "sentinel"]
    /\ clock >= 180

\* C5: the wait has aborted exactly when the last three polls all raised; a poll
\* that succeeds without a response in between starts the count again.
C5_AbortIffThreeInARow ==
    hq_out.kind = "aborted"
        <=> (Len(last_polls) = 3 /\ \A i \in 1 .. 3 : last_polls[i] = "raise")

C5_Witness ==
    /\ hq_out.kind = "aborted"
    /\ last_polls = <<"raise", "raise", "raise">>
    /\ clock > 3 * PollBackoffSecs + 2 * PollIntervalSec + 3 * MaxPollSecs

-----------------------------------------------------------------------------
(* Claims about the Context Store *)

\* C6: of two concurrent executions that call set_context with different
\* values, each reads through get_context_snapshot only values it set itself,
\* and a call made in one execution, a reset_context included, leaves the
\* snapshot of the other execution unchanged.
C6_ExecutionsIsolated ==
    /\ [](\A e \in Execs : \A f \in Fields :
            GetContextSnapshot(store, e)[f] \in {None} \cup ValuesOf[e])
    /\ [][\A e \in Execs :
            ctx_actor' # e => GetContextSnapshot(store', e) = GetContextSnapshot(store, e)]_vars

C6_Witness ==
    /\ ctx_actor = "A"
    /\ GetContextSnapshot(store, "A").task_id = None
    /\ supplied["A"].task_id = None
    /\ GetContextSnapshot(store, "B").task_id = "b1"
    /\ GetContextSnapshot(store, "A").crew_type = "a1"

\* C7: after any sequence of calls, get_context_snapshot returns for each field
\* the value of the latest set_context call that supplied it, and None when no
\* call supplied it since the latest reset_context: a call overwrites the fields
\* it supplies and no other.
C7_SnapshotIsLatestSupplied ==
    \A e \in Execs : GetContextSnapshot(store, e) = supplied[e]

C7_Witness ==
    /\ ctx_actor = "A"
    /\ GetContextSnapshot(store, "A").task_id = "a2"
    /\ GetContextSnapshot(store, "A").proc_inst_id = "a1"
    /\ GetContextSnapshot(store, "A").form_key = None


-----------------------------------------------------------------------------
(* Claims about initialize_db and get_db_client *)

\* C8: over any number of initialize_db calls, concurrent ones included, the
\* shared client is constructed at most once and, once set, never replaced, and
\* a call that finds the client set neither reads the configuration nor
\* constructs.
C8_ClientConstructedOnce ==
    /\ created <= 1
    /\ Len(assigned) <= 1
    /\ \A t \in Threads : init_out[t] = "noop" => init_pc[t] = "idle"

\* C9: get_db_client raises while no initialize_db call has completed
\* successfully, a failed initialization leaves the client unset, and after a
\* successful initialization every call returns the same shared client.
C9_GetClientSharedOrRaises ==
    /\ assigned = <<>> => (db_client = 0 /\ GetDbClient(db_client) = 0 /\ got \subseteq {0})
    /\ assigned # <<>> => GetDbClient(db_client) # 0
    /\ Cardinality(got \ {0}) <= 1

-----------------------------------------------------------------------------
(* Claims about SafeToolLoader.create_tools_from_names *)

\* the name is, blanks around it and letter case aside, one of the local tools
C10_IsLocalName(n) ==
    \E i \in DOMAIN n :
        /\ n[i] \in {"mem0", "MEM0", "memento", "human_asked"}
        /\ \A j \in DOMAIN n \ {i} : n[j] = " "

\* the name starts, leading blanks and letter case aside, with a2a:
C10_HasA2APrefix(n) ==
    \E i \in DOMAIN n :
        /\ n[i] \in {"a2a:", "A2A:"}
        /\ \A j \in 1 .. (i - 1) : n[j] = " "

\* the positions of the requested names that are neither
C10_ServerIndexes ==
    {i \in DOMAIN tool_names :
        ~C10_IsLocalName(tool_names[i]) /\ ~C10_HasA2APrefix(tool_names[i])}

C10_A2ATools == SelectSeq(tools, LAMBDA t : t.kind = "a2a")

-----------------------------------------------------------------------------
(* Claims about SafeToolLoader.shutdown_all_adapters *)

\* C11: when shutdown_all_adapters has finished, by returning or by raising
\* because a stop failed, the adapter registry is empty.
C11_RegistryEmptyAfterShutdown ==
    sd_pc = "done" => adapters = <<>>

-----------------------------------------------------------------------------
(* Claims about A2AAgentTool *)

\* C12: for every input and every failure _arun returns a JSON string and never
\* raises; without message, payload and extra keys it returns a structured
\* error object.
C12_ArunNeverRaises ==
    a2a_pc = "done" =>
        /\ a2a_out.kind = "returned"
        /\ (~Truthy(a2a_kwargs.message) /\ ~Truthy(a2a_kwargs.payload)
            /\ a2a_kwargs.extra = "none" /\ a2a_kwargs.typed)
             => a2a_out = A2AInputError

-----------------------------------------------------------------------------
(* Claims about the generated-code record *)

\* C13: after any sequence of upserts for one key of which no two overlapped,
\* once one has returned exactly one row exists for the key, it holds the code
\* of the upsert that returned last, and it is the row the first upsert
\* inserted: every later upsert updated the row its fetch found.
C13_OneRowHoldsLatestCode ==
    ~overlapped =>
        /\ Len(code_rows) <= 1
        /\ up_done > 0 =>
             /\ Len(code_rows) = 1
             /\ code_rows[1] = [id |-> 1, code |-> last_upsert]
        /\ \A u \in Upserters :
             (up_pc[u] = "fetched" /\ up_done > 0) => up_existing[u] = 1

C13_Witness ==
    /\ ~overlapped
    /\ up_done = 2
    /\ up_pc = [u \in Upserters |-> "idle"]
    /\ code_rows = <<[id |-> 1, code |-> "code_b"]>>
    /\ up_code[1] = "code_a"
    /\ up_code[2] = "code_b"

-----------------------------------------------------------------------------
(* Claims about the Deterministic Code Tool *)

\* an event the filter is to keep: a finished tool usage of an action crew, by
\* a tool that is named, is not internal, and is not a read-only execute_sql
C14_Kept(e) ==
    /\ e.row.event_type = "tool_usage_finished"
    /\ e.row.crew_type = "action"
    /\ e.row.tool \notin {"None", "mem0", "memento", "human_asked", "dmn_rule"}
    /\ ~(/\ e.row.tool = "execute_sql"
         /\ e.row.query \in {[is_str |-> TRUE, text |-> <<"SELECT", "rest">>],
                             [is_str |-> TRUE, text |-> <<" ", "select", "rest">>]})

\* C14: in generate mode the steps are exactly the recorded events that are
\* finished tool usages of crew type action, by a tool that is not internal,
\* and not an execute_sql call whose query starts with SELECT, in ascending
\* timestamp order; without such a step the generation fails and no code is
\* persisted.
C14_StepsAreFilteredEvents ==
    dc_fetches > 0 =>
        /\ {dc_steps[i] : i \in DOMAIN dc_steps}
             = {e \in {dc_events[i] : i \in DOMAIN dc_events} : C14_Kept(e)}
        /\ \A i, j \in DOMAIN dc_steps : i < j => dc_steps[i].ts < dc_steps[j].ts
        /\ dc_steps = <<>> => (dc_pc = "done" /\ dc_out = DcRunFailed)
        /\ dc_persisted > 0 => dc_steps # <<>>

C14_Witness ==
    /\ dc_out = DcGenerated
    /\ dc_persisted = 1
    /\ Len(dc_events) = 2
    /\ Len(dc_steps) = 1
    /\ dc_steps[1].row.tool = "execute_sql"
    /\ \E i \in DOMAIN dc_events :
         dc_events[i].row.tool = "execute_sql" /\ dc_events[i] # dc_steps[1]

\* C15: in execute mode with rework_count > 0 and saved code, the compensation
\* code runs first and the normal code second, and the tool returns the
\* compensation run's results followed by the normal run's results, with the
\* normal run's form result.
C15_CompensationThenNormal ==
    (/\ dc_pc = "done"
     /\ dc_action = "execute"
     /\ UseCompensation(dc_workitem)
     /\ Len(dc_results) = 2) =>
        /\ dc_runs = <<"compensation", "code">>
        /\ dc_out = [kind |-> "returned", val |-> "ok",
                     results |-> dc_results[1].results \o dc_results[2].results,
                     form_result |-> dc_results[2].form_result]

-----------------------------------------------------------------------------
(* Claims about the domain operations *)

\* C19: every domain operation retries a failing backend call up to 3 attempts
\* before it propagates the error: an operation raises only after 3 failed
\* calls, and returns when fewer than 3 calls in a row fail.
C19_EveryOperationRetries ==
    gw_pc = "done" =>
        /\ gw_out = "raised" => gw_calls = DefaultRetries
        /\ gw_failing < DefaultRetries => gw_out = "returned"

-----------------------------------------------------------------------------
(* Claims about the Event Logger *)

\* the event is of one of the four kinds: by its type attribute when it has
\* one, else by the name of its class
C17_Classified ==
    LET kinds == {"task_started", "task_completed", "tool_usage_started", "tool_usage_finished"}
    IN  \/ el_event.type \in kinds
        \/ /\ el_event.type = "none"
           /\ el_event.cls \in {"TaskStartedEvent", "TaskCompletedEvent",
                                "ToolUsageStartedEvent", "ToolUsageFinishedEvent"}

\* C17: a call of on_event with an event of one of the four kinds either
\* returns having stored exactly one Event row, which carries the ambient task
\* id, process-instance id and crew type, or raises having stored none; a call
\* with an event of any other kind stores nothing, calls no backend and returns.
C17_OneRowOrRaise ==
    el_pc = "done" =>
        IF C17_Classified
          THEN \/ /\ el_out = "returned"
                  /\ Len(events_table) = 1
                  /\ events_table[1].todo_id = el_ctx.task_id
                  /\ events_table[1].proc_inst_id = el_ctx.proc_inst_id
                  /\ events_table[1].crew_type = el_ctx.crew_type
                  /\ events_table[1].event_type \in
                        {"task_started", "task_completed", "tool_usage_started", "tool_usage_finished"}
               \/ /\ el_out = "raised"
                  /\ events_table = <<>>
          ELSE /\ el_out = "returned"
               /\ events_table = <<>>
               /\ el_attempts = 0

\* a tool-usage event recognised by its class name is stored on the third
\* insert attempt, in a context that has all three values
C17_Witness ==
    /\ el_pc = "done"
    /\ el_out = "returned"
    /\ el_event.type = "none"
    /\ el_event.cls = "ToolUsageFinishedEvent"
    /\ el_attempts = 3
    /\ el_ctx = [task_id |-> "t1", proc_inst_id |-> "p1", crew_type |-> "action"]
    /\ Len(events_table) = 1
    /\ events_table[1].todo_id = "t1"

-----------------------------------------------------------------------------
(* Claims about the fallback of _retry_sync *)

\* C18: the fallback is invoked at most once, and only after the last attempt
\* has failed and its delay has been slept; when every attempt has failed and a
\* fallback was supplied, the wrapper ends with the fallback's return value or
\* with the fallback's own error, never with the operation's last error; when
\* some attempt succeeds the fallback is not invoked.
C18_FallbackOnceAfterLastFailure ==
    /\ fb_calls <= 1
    /\ fb_calls = 1 =>
          /\ has_fallback
          /\ Len(fn_hist) = retries
          /\ \A i \in DOMAIN fn_hist : fn_hist[i] = "fail"
          /\ Len(delays) = retries
    /\ (retry_pc = "done" /\ \E i \in DOMAIN fn_hist : fn_hist[i] = "ok") =>
          /\ fb_calls = 0
          /\ retry_out.kind = "returned"
    /\ (/\ retry_pc = "done"
        /\ has_fallback
        /\ retries >= 1
        /\ \A i \in DOMAIN fn_hist : fn_hist[i] = "fail") =>
          /\ fb_calls = 1
          /\ retry_out.kind \in {"fallback_returned", "fallback_raised"}

\* three attempts failed, then the fallback raised
C18_Witness ==
    /\ retry_pc = "done"
    /\ retries = 3
    /\ fn_hist = <<"fail", "fail", "fail">>
    /\ fb_calls = 1
    /\ retry_out.kind = "fallback_raised"

-----------------------------------------------------------------------------
(* Claims about HumanQueryTool._run *)

\* the recipient CSV is a text with a character that is not a blank
C20_NonEmptyAfterTrim ==
    /\ ~run_csv.is_none
    /\ \E i \in DOMAIN run_csv.text : run_csv.text[i] # " "

\* C20: in a run of the Human Query Tool the human_asked Event is stored
\* before any Notification is inserted and before the first poll; a run whose
\* Event insert failed has inserted no Notification and polled nothing, a run
\* whose Notification insert failed has polled nothing; a Notification is
\* inserted only when the recipient CSV is non-empty after trimming.
C20_EventThenNotificationThenPoll ==
    /\ \A i \in DOMAIN run_log :
          run_log[i] \in {"notification", "poll"} =>
              \E j \in 1 .. (i - 1) : run_log[j] = "event"
    /\ \A i \in DOMAIN run_log : run_log[i] = "event" => i = 1
    /\ (run_pc # "event" /\ run_log = <<>>) =>
          /\ run_pc = "done"
          /\ run_out = "raised"
    /\ (run_pc \notin {"event", "notify"} /\ C20_NonEmptyAfterTrim
        /\ ParseUserIds(run_csv.text) # <<>> /\ Len(run_log) >= 1
        /\ \A i \in DOMAIN run_log : run_log[i] # "notification") =>
          /\ run_pc = "done"
          /\ run_out = "raised"
          /\ \A i \in DOMAIN run_log : run_log[i] # "poll"
    /\ (\E i \in DOMAIN run_log : run_log[i] = "notification") => C20_NonEmptyAfterTrim

\* a run with recipients "a,b" stored the Event and the Notification rows and
\* then polled
C20_Witness ==
    /\ run_pc = "done"
    /\ run_out = "returned"
    /\ run_csv.text = <<"a", ",", "b">>
    /\ run_log = <<"event", "notification", "poll", "poll">>
    /\ run_recipients = <<<<"a">>, <<"b">>>>

-----------------------------------------------------------------------------
(* Claims about the duration of the wait *)

\* C21: the wait for a human response has ended no later than 180 seconds
\* after polling began, whatever the polls did and however long they took.
C21_WaitEndsWithin180 ==
    hq_pc = "done" => clock <= TimeoutSec

-----------------------------------------------------------------------------
(* Claims about loading a remote server *)

\* the positions of the log that are attempts for the key at index i
C22_Attempts(i) == {k \in DOMAIN mcp_log : mcp_log[k].step = "attempt" /\ mcp_log[k].i = i}

\* C22: a configured server key is attempted at most 2 times, with a sleep
\* between the two; the tools of its first successful attempt are in the list
\* and the adapter of that attempt is in the registry; when both attempts
\* fail, create_tools_from_names raises and returns no list, and no key after
\* the failing one is attempted.
C22_TwoAttemptsThenFatal ==
    /\ \A i \in DOMAIN mcp_cfgs :
          /\ Cardinality(C22_Attempts(i)) <= 2
          /\ \A k \in C22_Attempts(i), m \in C22_Attempts(i) :
                k < m => /\ m = k + 2
                         /\ ~mcp_log[k].ok
                         /\ mcp_log[k + 1].step = "sleep"
          /\ \A k \in C22_Attempts(i) :
                mcp_log[k].ok =>
                    /\ \E t \in DOMAIN mcp_tools : mcp_tools[t] = [i |-> i, n |-> mcp_log[k].n]
                    /\ \E a \in DOMAIN mcp_registry : mcp_registry[a] = [i |-> i, n |-> mcp_log[k].n]
    /\ mcp_pc = "done" =>
          IF \E i \in DOMAIN mcp_cfgs :
                /\ Cardinality(C22_Attempts(i)) = 2
                /\ \A k \in C22_Attempts(i) : ~mcp_log[k].ok
            THEN /\ mcp_out = [kind |-> "raised", tools |-> <<>>]
                 /\ \A k \in DOMAIN mcp_log : mcp_log[k].i <= mcp_i
                 /\ \A k \in C22_Attempts(mcp_i) : ~mcp_log[k].ok
            ELSE /\ mcp_out.kind = "returned"
                 /\ mcp_out.tools = mcp_tools

\* the first key loads on its second attempt, the second key fails twice
C22_Witness ==
    /\ mcp_pc = "done"
    /\ mcp_cfgs = <<TRUE, TRUE>>
    /\ mcp_out.kind = "raised"
    /\ Len(mcp_log) = 6
    /\ mcp_log[3] = [step |-> "attempt", i |-> 1, n |-> 2, ok |-> TRUE]
    /\ mcp_registry = <<[i |-> 1, n |-> 2]>>

-----------------------------------------------------------------------------
(* Claims about the order of shutdown_all_adapters *)

\* C23: the adapters are stopped in registry order, first to last with none
\* passed over; when the stop of the adapter at position i fails the call
\* raises, every adapter before i has been stopped and none at or after i.
C23_StopsInOrderUntilFailure ==
    /\ \A k \in DOMAIN stopped : stopped[k] = k
    /\ sd_pc = "loop" => Len(stopped) = sd_i - 1
    /\ sd_out = "raised" =>
          /\ sd_i \in DOMAIN adapters
          /\ adapters[sd_i].stop_fails
          /\ Len(stopped) = sd_i - 1
          /\ \A k \in DOMAIN stopped : ~adapters[stopped[k]].stop_fails
    /\ sd_out = "returned" => Len(stopped) = sd_i - 1

\* the stop of the second of three adapters failed: only the first was stopped
C23_Witness ==
    /\ sd_pc = "done"
    /\ sd_out = "raised"
    /\ Len(adapters) = 3
    /\ sd_i = 2
    /\ stopped = <<1>>
    /\ ~adapters[3].stop_fails

-----------------------------------------------------------------------------
(* Claims about SafeToolLoader.warmup_server *)

\* C24: for every server configuration, a missing one, a command other than
\* npx and the argument list ["-y"] included, and for every outcome of the
\* subprocess runs, warmup_server returns normally.
C24_WarmupNeverRaises ==
    wu_pc = "done" => wu_out = "returned"

-----------------------------------------------------------------------------
(* Claims about the temporary file of _execute_code *)

\* C25: when an execution of saved code has ended, by any outcome, the
\* temporary file created for it no longer exists.
C25_TempFileRemoved ==
    ex_pc = "done" => ~ex_temp_exists

-----------------------------------------------------------------------------
(* Claims about the construction of the Decision-Table Tool *)

\* C26: when a user id is given and loading that user's rules fails, the
\* construction fails; a constructed tool of a user has an empty rule set
\* only after a load that succeeded and found no rules.
C26_LoadErrorFailsConstruction ==
    /\ dmn_load = "failed" => dmn_out = "raised"
    /\ (dmn_out = "constructed" /\ dmn_user_id \notin {"None", ""} /\ dmn_rules = <<>>) => dmn_load = "ok"

-----------------------------------------------------------------------------
(* Claims about the sync-over-async bridge *)

\* C27: a synchronous entry called on a thread whose event loop is running
\* gives its coroutine to that loop, the coroutine runs to its end and the
\* call returns: the call always comes to an end.
C27_BridgeTerminates ==
    <>(br_pc = "done")

-----------------------------------------------------------------------------
(* Claims about concurrent upserts of generated code *)

\* C28: under every interleaving of the fetch and upsert steps of concurrent
\* upsert_mcp_python_code calls for one key, at most one generated-code row
\* exists for the key.
C28_AtMostOneRowUnderOverlap ==
    Len(code_rows) <= 1

-----------------------------------------------------------------------------
(* Claims about the delivery of the human's answer *)

\* C29: the wait returns the no-answer sentinel only if no human_response
\* event was persisted before the deadline; when one was persisted before the
\* deadline and no poll has failed, the wait returns its answer.
C29_AnswerBeforeDeadlineDelivered ==
    hq_pc = "done" =>
        /\ hq_out = [kind |-> "returned", val |-> "sentinel"] =>
              ~(response # "none" /\ responded_at < deadline)
        /\ (response # "none" /\ responded_at < deadline /\ ~poll_raised) =>
              (hq_out.kind = "returned" /\ hq_out.val \in {"answer", "json"})

-----------------------------------------------------------------------------
(* Claims about the delays of _retry_sync *)

\* C30: every delay is followed by another attempt: when the wrapper has
\* ended after n attempts it has slept n - 1 times, so three failed attempts
\* incur exactly two delays.
C30_DelaysOnlyBeforeRetry ==
    (retry_pc = "done" /\ fn_hist # <<>>) => Len(delays) = Len(fn_hist) - 1

=============================================================================
